---- MODULE Spec2Model ----
(***************************************************************************)
(* Model of the Raft core of GoDatabase (package raft): RaftNode, its      *)
(* timers, the RaftRPC handlers, the per-peer RPC goroutines and the       *)
(* client request path, with the node's sync.RWMutex made explicit.        *)
(***************************************************************************)
EXTENDS Integers, Sequences, FiniteSets, TLC

\* ------------------------------------------------------------------ bounds
\* startElection is not taken once currentTerm has reached MaxTerm.
MaxTerm == 2
\* Number of client calls (SubmitRequest) issued in one behaviour.
MaxCalls == 2
\* Number of elections (startElection calls) started in one behaviour.
MaxElections == 2

\* --------------------------------------------------------------- constants
Follower == "Follower"
Candidate == "Candidate"
Leader == "Leader"

\* votedFor == "" in the source: no vote given.
NoVote == ""

\* Keys and values the clients use (byte strings as sequences of characters).
Keys == {<<"k">>}
Values == {<<"v">>}
Operations == {"put", "get", "delete"}

VARIABLES
    node,       \* node[n]: the RaftNode struct of replica n (and its storage)
    up,         \* the replicas whose process is running
    rpcs,       \* the outbound RPC goroutines that have not returned yet
    votes,      \* votes[n][t]: startElection's local `votes` of n's election for term t
    successCount, \* successCount[n][c]: replicateLogEntry's local counter of n's call c
    chan,       \* chan[n]: clientRequestChan of replica n
    run,        \* run[n]: where the run loop of replica n stands in handleClientRequest
    calls       \* the client calls (SubmitRequest) and what each returned

\* The B+Tree of package btree, driven on its own (see the tree specification).
VARIABLES
    tree,       \* the BTree, its nodes and the package's node registry
    sortedMap,  \* the sorted map driven by the same calls as the tree
    last        \* the last tree call and what it returned

\* The StorageEngine of package storage and the goroutines that call it.
VARIABLES
    file,       \* the bytes of the database file
    engine,     \* the StorageEngine handle: open or not, and what it held
    pc          \* pc[g]: where goroutine g stands in its Put; Get; Delete

\* One replica's RPC handlers and response goroutines, called one at a time.
VARIABLES
    handled     \* the last RPC step: the receiver before it, its input, its answer

VARIABLES
    monitor     \* the registry's monitor task: where its run stands and what it found

raftVars == <<node, up, rpcs, votes, successCount, chan, run, calls>>
treeVars == <<tree, sortedMap, last>>
engineVars == <<file, engine, pc>>

vars == <<node, up, rpcs, votes, successCount, chan, run, calls, tree, sortedMap, last,
          file, engine, pc, handled, monitor>>

Nodes == DOMAIN node

\* ----------------------------------------------------------------- helpers
Min(a, b) == IF a < b THEN a ELSE b

\* getLastLogTerm
getLastLogTerm(nd) ==
    IF Len(nd.log) = 0 THEN 0 ELSE nd.log[Len(nd.log)].Term

\* getPrevLogTerm
getPrevLogTerm(nd, index) ==
    IF index = 0 THEN 0
    ELSE IF index > Len(nd.log) THEN 0
    ELSE nd.log[index].Term

\* NewRaftNode: the struct as constructed, mu unlocked, storage empty.
NewRaftNode(id, peerIds) ==
    [ id          |-> id,
      peers       |-> peerIds,
      state       |-> Follower,
      currentTerm |-> 0,
      votedFor    |-> NoVote,
      log         |-> <<>>,
      commitIndex |-> 0,
      lastApplied |-> 0,
      nextIndex   |-> [p \in peerIds |-> 0],
      matchIndex  |-> [p \in peerIds |-> 0],
      mu          |-> "unlocked",
      storage     |-> [k \in {} |-> <<>>] ]

\* A cluster of replicas, each configured with all the others as peers.
NewCluster(ids) == [n \in ids |-> NewRaftNode(n, ids \ {n})]

\* ------------------------------------------------------------ state machine
\* storage.Storage.Put (BadgerStorage.Put: txn.Set overwrites).
StoragePut(st, key, value) ==
    [k \in DOMAIN st \cup {key} |-> IF k = key THEN value ELSE st[k]]

\* storage.Storage.Delete
StorageDelete(st, key) == [k \in DOMAIN st \ {key} |-> st[k]]

\* The command bytes handleClientRequest builds.
PutCommand(key, value) == <<"P", "U", "T", " ">> \o key \o <<" ">> \o value
DelCommand(key) == <<"D", "E", "L", " ">> \o key

\* Command[4:]
Tail4(cmd) == SubSeq(cmd, 5, Len(cmd))

\* The loop of applyCommittedEntries that looks for the first space:
\* the 0-based position of the first ' ' in s, -1 when there is none.
spaceIndex(s) ==
    IF \E i \in 1..Len(s) : s[i] = " "
    THEN (CHOOSE i \in 1..Len(s) : s[i] = " " /\ \A j \in 1..(i - 1) : s[j] # " ") - 1
    ELSE -1

\* bytes.Split(s, []byte{' '})
RECURSIVE bytesSplit(_)
bytesSplit(s) ==
    LET i == spaceIndex(s)
    IN IF i = -1 THEN <<s>>
       ELSE <<SubSeq(s, 1, i)>> \o bytesSplit(SubSeq(s, i + 2, Len(s)))

\* The switch of applyCommittedEntries on one entry (handlers.go and node.go
\* carry the same body).
applyCommitted1(st, cmd) ==
    IF SubSeq(cmd, 1, 4) = <<"P", "U", "T", " ">>
    THEN LET keyValue == Tail4(cmd)
             sp == spaceIndex(keyValue)
         IN IF sp > 0
            THEN StoragePut(st, SubSeq(keyValue, 1, sp),
                            SubSeq(keyValue, sp + 2, Len(keyValue)))
            ELSE st
    ELSE IF SubSeq(cmd, 1, 4) = <<"D", "E", "L", " ">>
    THEN StorageDelete(st, Tail4(cmd))
    ELSE st

\* applyCommittedEntries: reading log[lastApplied-1] past the end of the log
\* panics (the process dies); applyPanics tells whether the loop gets there.
applyPanics(nd) == nd.lastApplied < nd.commitIndex /\ nd.commitIndex > Len(nd.log)

\* applyCommittedEntries walking the committed entries from the last one down
\* to lastApplied+1.
RECURSIVE applyDownFrom(_, _)
applyDownFrom(nd, i) ==
    IF i <= nd.lastApplied \/ i > Len(nd.log) THEN nd
    ELSE applyDownFrom([nd EXCEPT !.storage = applyCommitted1(nd.storage, nd.log[i].Command)],
                       i - 1)

applyCommittedEntriesBackwards(nd) ==
    [applyDownFrom(nd, Min(nd.commitIndex, Len(nd.log))) EXCEPT
        !.lastApplied = IF nd.lastApplied < nd.commitIndex
                        THEN Min(nd.commitIndex, Len(nd.log)) ELSE nd.lastApplied]

RECURSIVE applyCommittedEntries(_)
applyCommittedEntries(nd) ==
    IF nd.lastApplied < nd.commitIndex /\ nd.lastApplied < Len(nd.log)
    THEN applyCommittedEntries(
             [nd EXCEPT !.lastApplied = nd.lastApplied + 1,
                        !.storage = applyCommitted1(nd.storage,
                                        nd.log[nd.lastApplied + 1].Command)])
    ELSE nd

\* applyEntry
applyEntry(st, entry) ==
    LET cmd == entry.Command
    IN IF Len(cmd) < 4 THEN st
       ELSE IF SubSeq(cmd, 1, 4) = <<"P", "U", "T", " ">>
       THEN LET parts == bytesSplit(Tail4(cmd))
            IN IF Len(parts) >= 2 THEN StoragePut(st, parts[1], parts[2]) ELSE st
       ELSE IF SubSeq(cmd, 1, 4) = <<"D", "E", "L", " ">>
       THEN StorageDelete(st, Tail4(cmd))
       ELSE st

\* ------------------------------------------------------------ RPC handlers
\* isLogUpToDate comparing the terms only: a candidate whose last term equals
\* the receiver's is taken as up to date whatever the length of its log.
isLogUpToDateByTerm(nd, candidateLastIndex, candidateLastTerm) ==
    candidateLastTerm >= getLastLogTerm(nd)

\* isLogUpToDate
isLogUpToDate(nd, candidateLastIndex, candidateLastTerm) ==
    LET lastIndex == Len(nd.log)
        lastTerm == getLastLogTerm(nd)
    IN \/ candidateLastTerm > lastTerm
       \/ (candidateLastTerm = lastTerm /\ candidateLastIndex >= lastIndex)

\* logContainsEntry
logContainsEntry(nd, index, term) ==
    IF index = 0 THEN TRUE
    ELSE IF index > Len(nd.log) THEN FALSE
    ELSE nd.log[index].Term = term

\* RaftRPC.RequestVote, run under the receiver's mu.Lock: the receiver after
\* the call and the response.
RequestVote(nd, req) ==
    IF req.Term < nd.currentTerm
    THEN [nd |-> nd, resp |-> [Term |-> nd.currentTerm, VoteGranted |-> FALSE]]
    ELSE LET n1 == IF req.Term > nd.currentTerm
                   THEN [nd EXCEPT !.currentTerm = req.Term,
                                   !.state = Follower,
                                   !.votedFor = NoVote]
                   ELSE nd
         IN IF /\ (n1.votedFor = NoVote \/ n1.votedFor = req.CandidateID)
               /\ isLogUpToDate(n1, req.LastLogIndex, req.LastLogTerm)
            THEN [nd   |-> [n1 EXCEPT !.votedFor = req.CandidateID],
                  resp |-> [Term |-> n1.currentTerm, VoteGranted |-> TRUE]]
            ELSE [nd   |-> n1,
                  resp |-> [Term |-> n1.currentTerm, VoteGranted |-> FALSE]]

\* The conflict scan of AppendEntries: the first logIndex = PrevLogIndex+1+i
\* (used as a 0-based position of the log slice) below len(log) whose entry's
\* term differs from the i-th new entry's; -1 when there is none.
conflictIndex(nd, req) ==
    LET hit(i) == LET logIndex == req.PrevLogIndex + 1 + i
                  IN /\ logIndex < Len(nd.log)
                     /\ nd.log[logIndex + 1].Term # req.Entries[i + 1].Term
    IN IF \E i \in 0..(Len(req.Entries) - 1) : hit(i)
       THEN LET i0 == CHOOSE i \in 0..(Len(req.Entries) - 1) :
                          hit(i) /\ \A j \in 0..(i - 1) : ~hit(j)
            IN req.PrevLogIndex + 1 + i0
       ELSE -1

\* The append loop of AppendEntries: every entry of the request is appended,
\* its Index set to the position it lands on.
RECURSIVE appendAll(_, _)
appendAll(log, entries) ==
    IF entries = <<>> THEN log
    ELSE appendAll(Append(log, [Head(entries) EXCEPT !.Index = Len(log) + 1]),
                   Tail(entries))

\* RaftRPC.AppendEntries, run under the receiver's mu.Lock.
AppendEntries(nd, req) ==
    IF req.Term < nd.currentTerm
    THEN [nd |-> nd, resp |-> [Term |-> nd.currentTerm, Success |-> FALSE]]
    ELSE LET n1 == IF req.Term > nd.currentTerm
                   THEN [nd EXCEPT !.currentTerm = req.Term,
                                   !.state = Follower,
                                   !.votedFor = NoVote]
                   ELSE nd
         IN IF Len(req.Entries) = 0
            THEN [nd |-> n1, resp |-> [Term |-> n1.currentTerm, Success |-> TRUE]]
            ELSE IF ~logContainsEntry(n1, req.PrevLogIndex, req.PrevLogTerm)
            THEN [nd |-> n1, resp |-> [Term |-> n1.currentTerm, Success |-> FALSE]]
            ELSE LET ci == conflictIndex(n1, req)
                     cut == IF ci # -1 THEN SubSeq(n1.log, 1, ci) ELSE n1.log
                     newLog == appendAll(cut, req.Entries)
                     newCommit == IF req.LeaderCommit > n1.commitIndex
                                  THEN Min(req.LeaderCommit, Len(newLog))
                                  ELSE n1.commitIndex
                     n2 == [n1 EXCEPT !.log = newLog, !.commitIndex = newCommit]
                 IN [nd   |-> applyCommittedEntries(n2),
                     resp |-> [Term |-> n1.currentTerm, Success |-> TRUE]]

\* Whether AppendEntries panics in applyCommittedEntries (commitIndex was left
\* above a log the call truncated).
AppendEntriesPanics(nd, req) ==
    /\ req.Term >= nd.currentTerm
    /\ Len(req.Entries) # 0
    /\ logContainsEntry(nd, req.PrevLogIndex, req.PrevLogTerm)
    /\ LET ci == conflictIndex(nd, req)
           cut == IF ci # -1 THEN SubSeq(nd.log, 1, ci) ELSE nd.log
           newLog == appendAll(cut, req.Entries)
           newCommit == IF req.LeaderCommit > nd.commitIndex
                        THEN Min(req.LeaderCommit, Len(newLog))
                        ELSE nd.commitIndex
       IN applyPanics([nd EXCEPT !.log = newLog, !.commitIndex = newCommit])


\* ------------------------------------------------- elections and leadership
\* A step-down that takes the term and leaves the state as it is.
stepDownKeepState(nd, term) ==
    [nd EXCEPT !.currentTerm = term, !.votedFor = NoVote]

\* "If RPC response contains term T > currentTerm": the step-down of the
\* response goroutines.
stepDown(nd, term) ==
    [nd EXCEPT !.currentTerm = term, !.state = Follower, !.votedFor = NoVote]

\* An election that skips a term.
startElectionSkipsTerm(nd) ==
    [nd EXCEPT !.state = Candidate,
               !.currentTerm = nd.currentTerm + 2,
               !.votedFor = nd.id]

\* startElection, under mu.Lock, up to the spawning of the vote goroutines.
startElection(nd) ==
    [nd EXCEPT !.state = Candidate,
               !.currentTerm = nd.currentTerm + 1,
               !.votedFor = nd.id]

\* becomeLeader.  Its only caller is the vote goroutine of startElection, which
\* holds mu.Lock (deferred Unlock).  becomeLeader ends in sendHeartbeats, whose
\* first statement is mu.RLock: sync.RWMutex is not reentrant, so the goroutine
\* blocks there for ever with the write lock held.
becomeLeader(nd) ==
    [nd EXCEPT !.state = Leader,
               !.nextIndex = [p \in nd.peers |-> Len(nd.log) + 1],
               !.matchIndex = [p \in nd.peers |-> 0],
               !.mu = "locked"]

\* The vote goroutine once its response is in, under mu.Lock: the node after
\* it and the election's votes counter after it.
voteReturn(nd, resp, v) ==
    LET totalVotes == Cardinality(nd.peers) + 1
    IN IF resp.Term > nd.currentTerm
       THEN [nd |-> stepDown(nd, resp.Term), votes |-> v]
       ELSE IF resp.VoteGranted
       THEN [nd    |-> IF v + 1 > totalVotes \div 2 THEN becomeLeader(nd) ELSE nd,
             votes |-> v + 1]
       ELSE [nd |-> nd, votes |-> v]

\* The heartbeat goroutine once its response is in, under mu.Lock.
heartbeatReturn(nd, resp) ==
    IF resp.Term > nd.currentTerm THEN stepDown(nd, resp.Term) ELSE nd

\* The replicate goroutine of replicateLogEntry once its response is in, under
\* mu.Lock: the node after it and the call's successCount after it.
replicateReturn(nd, peer, resp, logIndex, sc) ==
    LET totalPeers == Cardinality(nd.peers) + 1
    IN IF resp.Term > nd.currentTerm
       THEN [nd |-> stepDown(nd, resp.Term), successCount |-> sc]
       ELSE IF resp.Success
       THEN LET n1 == [nd EXCEPT !.matchIndex[peer] = logIndex,
                                 !.nextIndex[peer] = logIndex + 1]
            IN [nd |-> IF sc + 1 > totalPeers \div 2
                       THEN applyCommittedEntries([n1 EXCEPT !.commitIndex = logIndex])
                       ELSE n1,
                successCount |-> sc + 1]
       ELSE [nd |-> IF nd.nextIndex[peer] > 0
                    THEN [nd EXCEPT !.nextIndex[peer] = nd.nextIndex[peer] - 1]
                    ELSE nd,
             successCount |-> sc]

\* ------------------------------------------------------------ RPC goroutines
NoEntry == [Term |-> 0, Index |-> 0, Command |-> <<>>]
NoReq == [Term |-> 0]
NoResp == [Term |-> 0]

\* A goroutine spawned for one peer: `go func(id, addr)` of startElection
\* (kind "vote"), sendHeartbeats ("heartbeat") or replicateLogEntry
\* ("replicate"), with the variables its closure captured.
goroutine(kind, from, to, id, term, entry, logIndex) ==
    [ kind |-> kind, from |-> from, to |-> to, id |-> id, phase |-> "spawned",
      term |-> term, entry |-> entry, logIndex |-> logIndex,
      req |-> NoReq, resp |-> NoResp ]

\* The request a goroutine builds; it reads the node's fields without the lock,
\* at the moment it runs.
buildRequest(g, nd) ==
    IF g.kind = "vote"
    THEN [ Term |-> nd.currentTerm, CandidateID |-> nd.id,
           LastLogIndex |-> Len(nd.log), LastLogTerm |-> getLastLogTerm(nd) ]
    ELSE IF g.kind = "heartbeat"
    THEN [ Term |-> g.term, LeaderID |-> nd.id, PrevLogIndex |-> 0,
           PrevLogTerm |-> 0, Entries |-> <<>>, LeaderCommit |-> nd.commitIndex ]
    ELSE [ Term |-> g.term, LeaderID |-> nd.id, PrevLogIndex |-> g.logIndex - 1,
           PrevLogTerm |-> getPrevLogTerm(nd, g.logIndex - 1),
           Entries |-> <<g.entry>>, LeaderCommit |-> nd.commitIndex ]

\* The goroutines that are gone, or whose call fails, when process n dies.
withoutProcess(gs, n) ==
    {g \in gs : g.from # n /\ ~(g.to = n /\ g.phase = "called")}

\* The goroutine builds its request and dials the peer (sendRequestVote,
\* sendAppendEntries); a peer that is down fails the dial and the goroutine returns.
rpcCall(g) ==
    /\ g.phase = "spawned"
    /\ g.from \in up
    /\ rpcs' = IF g.to \in up
               THEN (rpcs \ {g}) \cup
                    {[g EXCEPT !.phase = "called", !.req = buildRequest(g, node[g.from])]}
               ELSE rpcs \ {g}
    /\ UNCHANGED <<node, up, votes, successCount, chan, run, calls>>

\* The peer's RPC server runs the handler under the peer's mu.Lock.
rpcServe(g) ==
    /\ g.phase = "called"
    /\ g.to \in up
    /\ node[g.to].mu = "unlocked"
    /\ IF g.kind # "vote" /\ AppendEntriesPanics(node[g.to], g.req)
       THEN /\ up' = up \ {g.to}
            /\ rpcs' = withoutProcess(rpcs, g.to)
            /\ UNCHANGED node
       ELSE LET r == IF g.kind = "vote"
                     THEN RequestVote(node[g.to], g.req)
                     ELSE AppendEntries(node[g.to], g.req)
            IN /\ node' = [node EXCEPT ![g.to] = r.nd]
               /\ rpcs' = (rpcs \ {g}) \cup {[g EXCEPT !.phase = "replied", !.resp = r.resp]}
               /\ UNCHANGED up
    /\ UNCHANGED <<votes, successCount, chan, run, calls>>

\* The goroutine takes its own node's mu.Lock and integrates the response.
rpcReturn(g) ==
    /\ g.phase = "replied"
    /\ g.from \in up
    /\ node[g.from].mu = "unlocked"
    /\ IF g.kind = "vote"
       THEN LET r == voteReturn(node[g.from], g.resp, votes[g.from][g.id])
            IN /\ node' = [node EXCEPT ![g.from] = r.nd]
               /\ votes' = [votes EXCEPT ![g.from][g.id] = r.votes]
               /\ rpcs' = rpcs \ {g}
               /\ UNCHANGED <<up, successCount>>
       ELSE IF g.kind = "heartbeat"
       THEN /\ node' = [node EXCEPT ![g.from] = heartbeatReturn(node[g.from], g.resp)]
            /\ rpcs' = rpcs \ {g}
            /\ UNCHANGED <<up, votes, successCount>>
       ELSE LET r == replicateReturn(node[g.from], g.to, g.resp, g.logIndex,
                                     successCount[g.from][g.id])
            IN IF applyPanics(r.nd)
               THEN /\ up' = up \ {g.from}
                    /\ rpcs' = withoutProcess(rpcs, g.from)
                    /\ UNCHANGED <<node, votes, successCount>>
               ELSE /\ node' = [node EXCEPT ![g.from] = r.nd]
                    /\ successCount' = [successCount EXCEPT ![g.from][g.id] = r.successCount]
                    /\ rpcs' = rpcs \ {g}
                    /\ UNCHANGED <<up, votes>>
    /\ UNCHANGED <<chan, run, calls>>

\* ------------------------------------------------------------------- timers
\* The elections started so far: startElection sets its votes counter to 1.
elections == {nt \in Nodes \X (1..MaxTerm) : votes[nt[1]][nt[2]] > 0}

\* electionTimer and heartbeatTimer.  Each reads state under the lock; the
\* election timer acts only when state # Leader (startElection, under mu.Lock),
\* the heartbeat ticker only when state = Leader (sendHeartbeats, under
\* mu.RLock).  The election timeout itself is not modelled: the timer may fire
\* whenever the node is not Leader.
timers(n) ==
    /\ n \in up
    /\ node[n].mu = "unlocked"
    /\ IF node[n].state # Leader
       THEN /\ node[n].currentTerm < MaxTerm
            /\ Cardinality(elections) < MaxElections
            /\ node' = [node EXCEPT ![n] = startElection(node[n])]
            /\ votes' = [votes EXCEPT ![n][node[n].currentTerm + 1] = 1]
            /\ rpcs' = rpcs \cup
                  {goroutine("vote", n, p, node[n].currentTerm + 1, 0, NoEntry, 0) :
                       p \in node[n].peers}
       ELSE /\ rpcs' = rpcs \cup
                  {goroutine("heartbeat", n, p, 0, node[n].currentTerm, NoEntry, 0) :
                       p \in node[n].peers}
            /\ UNCHANGED <<node, votes>>
    /\ UNCHANGED <<up, successCount, chan, run, calls>>


\* ---------------------------------------------------------- client requests
NotLeader == "not the leader"
UnknownOperation == "unknown operation"
NotReplicated == "failed to replicate to majority"
ResponseTimeout == "timeout waiting for response"

ClientResponse(success, value, error) ==
    [Success |-> success, Value |-> value, Error |-> error]

idle == [pc |-> "idle", id |-> 0, Operation |-> "", entry |-> NoEntry, logIndex |-> 0]

\* req.Response <- resp: the channel is buffered; a caller that has already
\* given up never reads it.
respond(id, resp) ==
    IF calls[id].status = "waiting"
    THEN [calls EXCEPT ![id].status = "done", ![id].resp = resp]
    ELSE calls

\* SubmitRequest (behind RaftNode.Put, Get and Delete): the request goes into
\* clientRequestChan and the caller waits for its response.  The call's record
\* notes whether the replica was Leader when the request was submitted.
SubmitRequest(n, op, key, value) ==
    /\ Len(calls) < MaxCalls
    /\ n \in up
    /\ chan' = [chan EXCEPT ![n] = Append(@, [id |-> Len(calls) + 1, Operation |-> op,
                                               Key |-> key, Value |-> value])]
    /\ calls' = Append(calls, [node |-> n, Operation |-> op, Key |-> key, Value |-> value,
                               toLeader |-> node[n].state = Leader,
                               status |-> "waiting",
                               resp |-> ClientResponse(FALSE, <<>>, "")])
    /\ UNCHANGED <<node, up, rpcs, votes, successCount, run>>

\* The 10 s wait of SubmitRequest runs out.  handleClientRequest answers within
\* its own 100 ms sleep unless it is blocked on the node's lock, so the wait
\* runs out exactly when the lock is held for ever.
responseTimeout(c) ==
    /\ calls[c].status = "waiting"
    /\ node[calls[c].node].mu = "locked"
    /\ calls' = [calls EXCEPT ![c].status = "done",
                              ![c].resp = ClientResponse(FALSE, <<>>, ResponseTimeout)]
    /\ UNCHANGED <<node, up, rpcs, votes, successCount, chan, run>>

\* handleClientRequest without its "state != Leader" check: every put and
\* delete goes on to the append, whatever the replica's state.
handleStartAnyState(nd, req) ==
    IF req.Operation = "put"
    THEN [run |-> [pc |-> "append", id |-> req.id, Operation |-> req.Operation,
                   entry |-> [NoEntry EXCEPT !.Command = PutCommand(req.Key, req.Value)],
                   logIndex |-> 0],
          answered |-> FALSE, resp |-> ClientResponse(FALSE, <<>>, "")]
    ELSE IF req.Operation = "delete"
    THEN [run |-> [pc |-> "append", id |-> req.id, Operation |-> req.Operation,
                   entry |-> [NoEntry EXCEPT !.Command = DelCommand(req.Key)],
                   logIndex |-> 0],
          answered |-> FALSE, resp |-> ClientResponse(FALSE, <<>>, "")]
    ELSE [run |-> idle, answered |-> TRUE,
          resp |-> ClientResponse(FALSE, <<>>, UnknownOperation)]

\* The first part of handleClientRequest, under mu.RLock: the state check and
\* the encoding of the command.  The run loop after it and the response, if one
\* is sent here.
handleStart(nd, req) ==
    IF nd.state # Leader
    THEN [run |-> idle, answered |-> TRUE,
          resp |-> ClientResponse(FALSE, <<>>, NotLeader)]
    ELSE IF req.Operation = "put"
    THEN [run |-> [pc |-> "append", id |-> req.id, Operation |-> req.Operation,
                   entry |-> [NoEntry EXCEPT !.Command = PutCommand(req.Key, req.Value)],
                   logIndex |-> 0],
          answered |-> FALSE, resp |-> ClientResponse(FALSE, <<>>, "")]
    ELSE IF req.Operation = "delete"
    THEN [run |-> [pc |-> "append", id |-> req.id, Operation |-> req.Operation,
                   entry |-> [NoEntry EXCEPT !.Command = DelCommand(req.Key)],
                   logIndex |-> 0],
          answered |-> FALSE, resp |-> ClientResponse(FALSE, <<>>, "")]
    ELSE [run |-> idle, answered |-> TRUE,
          resp |-> ClientResponse(FALSE, <<>>, UnknownOperation)]

\* "Add entry to log" of handleClientRequest, under mu.Lock.
handleAppend(nd, command) ==
    Append(nd.log, [Term |-> nd.currentTerm, Index |-> Len(nd.log) + 1,
                    Command |-> command])

\* The run loop of replica n: it takes a request from clientRequestChan and
\* goes through handleClientRequest and replicateLogEntry, one locked section
\* at a time.
runLoop(n) ==
    /\ n \in up
    /\ IF run[n].pc = "idle"
       THEN \* handleClientRequest: mu.RLock, state check, command
            /\ chan[n] # <<>>
            /\ node[n].mu = "unlocked"
            /\ LET r == handleStart(node[n], Head(chan[n]))
               IN /\ run' = [run EXCEPT ![n] = r.run]
                  /\ calls' = IF r.answered THEN respond(Head(chan[n]).id, r.resp) ELSE calls
            /\ chan' = [chan EXCEPT ![n] = Tail(@)]
            /\ UNCHANGED <<node, rpcs, successCount>>
       ELSE IF run[n].pc = "append"
       THEN \* handleClientRequest: mu.Lock, append the entry
            /\ node[n].mu = "unlocked"
            /\ node' = [node EXCEPT ![n].log = handleAppend(node[n], run[n].entry.Command)]
            /\ run' = [run EXCEPT ![n].pc = "replicate",
                                  ![n].entry = [Term |-> node[n].currentTerm,
                                                Index |-> Len(node[n].log) + 1,
                                                Command |-> run[n].entry.Command],
                                  ![n].logIndex = Len(node[n].log) + 1]
            /\ UNCHANGED <<rpcs, successCount, chan, calls>>
       ELSE IF run[n].pc = "replicate"
       THEN \* replicateLogEntry: mu.RLock, term and peers; one goroutine a peer
            /\ node[n].mu = "unlocked"
            /\ successCount' = [successCount EXCEPT ![n][run[n].id] = 1]
            /\ rpcs' = rpcs \cup
                  {goroutine("replicate", n, p, run[n].id, node[n].currentTerm,
                             run[n].entry, run[n].logIndex) : p \in node[n].peers}
            /\ run' = [run EXCEPT ![n].pc = "sleep"]
            /\ UNCHANGED <<node, chan, calls>>
       ELSE IF run[n].pc = "sleep"
       THEN \* replicateLogEntry: after the 100 ms sleep, mu.RLock,
            \* return commitIndex >= logIndex
            /\ node[n].mu = "unlocked"
            /\ IF node[n].commitIndex >= run[n].logIndex
               THEN /\ run' = [run EXCEPT ![n].pc = "apply"]
                    /\ UNCHANGED calls
               ELSE /\ run' = [run EXCEPT ![n] = idle]
                    /\ calls' = respond(run[n].id, ClientResponse(FALSE, <<>>, NotReplicated))
            /\ UNCHANGED <<node, rpcs, successCount, chan>>
       ELSE \* handleClientRequest: applyEntry and the success response
            /\ run[n].pc = "apply"
            /\ node' = [node EXCEPT ![n].storage = applyEntry(@, run[n].entry)]
            /\ run' = [run EXCEPT ![n] = idle]
            /\ calls' = respond(run[n].id, ClientResponse(TRUE, <<>>, ""))
            /\ UNCHANGED <<rpcs, successCount, chan>>
    /\ UNCHANGED <<up, votes>>

\* A replica's process is killed.
kill(n) ==
    /\ n \in up
    /\ up' = up \ {n}
    /\ rpcs' = withoutProcess(rpcs, n)
    /\ UNCHANGED <<node, votes, successCount, chan, run, calls>>

\* ------------------------------------------------------------ B+Tree: nodes
BNODE_NODE == 1
BNODE_LEAF == 2

BTREE_PAGE_SIZE == 4096
BTREE_MAX_KEY_SIZE == 1000
BTREE_MAX_VAL_SIZE == 3000

\* uint16 arithmetic of nkeys and of the offsets.
uint16(x) == x % 65536

\* A byte slice that repeats one byte: byte b, n times.  nil and the empty
\* slice are NoBytes.
bytes(b, n) == [b |-> b, n |-> n]
NoBytes == bytes(0, 0)

\* bytes.Compare on such slices: -1, 0 or 1.
bytesCompare(x, y) ==
    IF x.n = 0 \/ y.n = 0 \/ x.b = y.b
    THEN IF x.n < y.n THEN -1 ELSE IF x.n > y.n THEN 1 ELSE 0
    ELSE IF x.b < y.b THEN -1 ELSE 1

\* One encoded pair of the data section:
\* | key_size (2B) | val_size (2B) | key | val |
entrySize(e) == 4 + e.key.n + e.val.n

\* len(data) of a data section held as the sequence of its encoded pairs.
RECURSIVE dataLen(_)
dataLen(d) == IF d = <<>> THEN 0 ELSE entrySize(Head(d)) + dataLen(Tail(d))

\* NewNode
NewNode(typ) ==
    [typ |-> typ, nkeys |-> 0, pointers |-> <<>>, offsets |-> <<>>, data |-> <<>>]

\* Node.Size
NodeSize(n) == 4 + Len(n.pointers) * 8 + Len(n.offsets) * 2 + dataLen(n.data)

\* Node.IsFull
IsFull(n) == NodeSize(n) >= BTREE_PAGE_SIZE

\* Node.IsEmpty
IsEmpty(n) == n.nkeys = 0

\* The pair that is decoded at byte offset off of the data section: its
\* position in the sequence of pairs (n.data[start], n.data[start+1], ...).
entryAt(n, off) ==
    CHOOSE j \in 1..Len(n.data) : dataLen(SubSeq(n.data, 1, j - 1)) = off

\* Node.keys
keys(n) == [i \in 1..n.nkeys |-> n.data[entryAt(n, n.offsets[i])].key]

\* Node.getValue (i counts from 0); NoBytes is nil.
getValue(n, i) ==
    IF n.typ # BNODE_LEAF \/ i < 0 \/ i >= n.nkeys THEN NoBytes
    ELSE n.data[entryAt(n, n.offsets[i + 1])].val

\* Node.insertKV (pos counts from 0)
insertKV(n, pos, key, value) ==
    LET entry == [key |-> key, val |-> value]
        newOffset == IF pos = n.nkeys THEN uint16(dataLen(n.data)) ELSE n.offsets[pos + 1]
        j == IF pos = n.nkeys THEN Len(n.data) + 1 ELSE entryAt(n, newOffset)
    IN [n EXCEPT
          !.data = SubSeq(n.data, 1, j - 1) \o <<entry>> \o SubSeq(n.data, j, Len(n.data)),
          !.offsets = SubSeq(n.offsets, 1, pos) \o <<newOffset>> \o
                      [i \in 1..(Len(n.offsets) - pos) |->
                          uint16(n.offsets[pos + i] + entrySize(entry))],
          !.nkeys = uint16(n.nkeys + 1)]

\* Node.removeKV (pos counts from 0)
removeKV(n, pos) ==
    IF pos < 0 \/ pos >= n.nkeys THEN n
    ELSE IF n.offsets[pos + 1] + 4 > dataLen(n.data) THEN n
    ELSE LET j == entryAt(n, n.offsets[pos + 1])
             size == entrySize(n.data[j])
         IN [n EXCEPT
               !.data = SubSeq(n.data, 1, j - 1) \o SubSeq(n.data, j + 1, Len(n.data)),
               !.offsets = SubSeq(n.offsets, 1, pos) \o
                           [i \in 1..(Len(n.offsets) - pos - 1) |->
                               uint16(n.offsets[pos + 1 + i] - size)],
               !.nkeys = uint16(n.nkeys - 1)]

\* Node.Split: the node after the call (left), the new right node and the
\* promoted key, the first key of the right node; ok is FALSE when Split
\* returns (nil, nil).
Split(n) ==
    IF n.nkeys < 2
    THEN [ok |-> FALSE, left |-> n, right |-> n, promotedKey |-> NoBytes]
    ELSE LET splitIdx == n.nkeys \div 2
             startOffset == n.offsets[splitIdx + 1]
             j == entryAt(n, startOffset)
             right == [typ      |-> n.typ,
                       nkeys    |-> n.nkeys - splitIdx,
                       pointers |-> IF n.typ = BNODE_NODE
                                    THEN SubSeq(n.pointers, splitIdx + 1, Len(n.pointers))
                                    ELSE <<>>,
                       offsets  |-> [i \in 1..(n.nkeys - splitIdx) |->
                                        uint16(n.offsets[splitIdx + i] - startOffset)],
                       data     |-> SubSeq(n.data, j, Len(n.data))]
             left == [n EXCEPT
                        !.pointers = IF n.typ = BNODE_NODE
                                     THEN SubSeq(n.pointers, 1, splitIdx)
                                     ELSE n.pointers,
                        !.nkeys = splitIdx,
                        !.offsets = SubSeq(n.offsets, 1, splitIdx),
                        !.data = SubSeq(n.data, 1, j - 1)]
         IN [ok |-> TRUE, left |-> left, right |-> right,
             promotedKey |-> keys(right)[1]]

\* ---------------------------------------------------- B+Tree: serialization
\* A buffer is the sequence of its runs of equal bytes, no run empty and no two
\* neighbours of the same byte.
repeat(b, n) == IF n = 0 THEN <<>> ELSE <<bytes(b, n)>>

\* append(x, y...)
concat(x, y) ==
    IF x = <<>> THEN y
    ELSE IF y = <<>> THEN x
    ELSE IF x[Len(x)].b = y[1].b
    THEN SubSeq(x, 1, Len(x) - 1) \o <<bytes(y[1].b, x[Len(x)].n + y[1].n)>> \o Tail(y)
    ELSE x \o y

\* len(buf)
RECURSIVE bufLen(_)
bufLen(buf) == IF buf = <<>> THEN 0 ELSE Head(buf).n + bufLen(Tail(buf))

\* buf[i], for i < len(buf)
RECURSIVE byteAt(_, _)
byteAt(buf, i) ==
    IF i < Head(buf).n THEN Head(buf).b ELSE byteAt(Tail(buf), i - Head(buf).n)

\* buf[off:], for off <= len(buf)
RECURSIVE bufFrom(_, _)
bufFrom(buf, off) ==
    IF off = 0 \/ buf = <<>> THEN buf
    ELSE IF off >= Head(buf).n THEN bufFrom(Tail(buf), off - Head(buf).n)
    ELSE <<bytes(Head(buf).b, Head(buf).n - off)>> \o Tail(buf)

\* byte(x >> 8), byte(x): the two bytes of a uint16, high byte first.
be16(x) == concat(repeat((x \div 256) % 256, 1), repeat(x % 256, 1))

\* The eight bytes of a uint64, high byte first (node IDs stay below 2^31).
word64(x) ==
    <<0, 0, 0, 0, (x \div 16777216) % 256, (x \div 65536) % 256, (x \div 256) % 256, x % 256>>

RECURSIVE wordBytes(_)
wordBytes(w) == IF w = <<>> THEN <<>> ELSE concat(repeat(Head(w), 1), wordBytes(Tail(w)))

\* The bytes of a data section: every pair as insertKV encodes it.
RECURSIVE dataBytes(_)
dataBytes(d) ==
    IF d = <<>> THEN <<>>
    ELSE LET e == Head(d)
             entry == concat(concat(be16(e.key.n), be16(e.val.n)),
                             concat(repeat(e.key.b, e.key.n), repeat(e.val.b, e.val.n)))
         IN concat(entry, dataBytes(Tail(d)))

RECURSIVE pointerBytes(_)
pointerBytes(ps) ==
    IF ps = <<>> THEN <<>> ELSE concat(wordBytes(word64(Head(ps))), pointerBytes(Tail(ps)))

RECURSIVE offsetBytes(_)
offsetBytes(os) == IF os = <<>> THEN <<>> ELSE concat(be16(Head(os)), offsetBytes(Tail(os)))

\* Node.Serialize: header, len(pointers) pointers, len(offsets) offsets, data.
Serialize(n) ==
    concat(concat(be16(n.typ), be16(n.nkeys)),
           concat(pointerBytes(n.pointers), concat(offsetBytes(n.offsets), dataBytes(n.data))))

DataTooShort == "data too short"

\* Node.Deserialize: header, then nkeys pointers, nkeys offsets, and the rest as
\* data. A read past the end of the buffer panics (index out of range). The
\* pointers are given as their eight bytes, the data as its bytes.
Deserialize(data) ==
    IF bufLen(data) < 4
    THEN [err |-> DataTooShort, panic |-> FALSE, node |-> NewNode(0)]
    ELSE LET typ == byteAt(data, 0) * 256 + byteAt(data, 1)
             nkeys == byteAt(data, 2) * 256 + byteAt(data, 3)
             offset == 4 + nkeys * 8 + nkeys * 2
         IN IF bufLen(data) < offset
            THEN [err |-> "", panic |-> TRUE, node |-> NewNode(typ)]
            ELSE [err |-> "", panic |-> FALSE,
                  node |->
                    [typ |-> typ,
                     nkeys |-> nkeys,
                     pointers |-> [i \in 1..nkeys |->
                                     [j \in 1..8 |-> byteAt(data, 4 + (i - 1) * 8 + (j - 1))]],
                     offsets |-> [i \in 1..nkeys |->
                                    byteAt(data, 4 + nkeys * 8 + (i - 1) * 2) * 256
                                    + byteAt(data, 4 + nkeys * 8 + (i - 1) * 2 + 1)],
                     data |-> bufFrom(data, offset)]]

\* The node as Deserialize gives nodes: pointers as bytes, data as bytes.
asBytes(n) ==
    [typ |-> n.typ,
     nkeys |-> n.nkeys,
     pointers |-> [i \in 1..Len(n.pointers) |-> word64(n.pointers[i])],
     offsets |-> n.offsets,
     data |-> dataBytes(n.data)]

\* ------------------------------------------------------------- B+Tree: tree
\* A tree value t holds the BTree struct (root, size), the nodes it has
\* allocated (heap: a *Node is a position of heap, nil is 0) and the package
\* variables nodeRelationships and nextNodeID.
nil == 0

\* What getChild returns for a pointer that nodeRelationships does not hold: a
\* new empty leaf that nothing else refers to.
fresh == -1

\* NewBTree
NewBTree ==
    [root |-> 1, size |-> 0, heap |-> <<NewNode(BNODE_LEAF)>>,
     nodeRelationships |-> <<>>, nextNodeID |-> 1]

\* The node behind a *Node.
deref(t, a) == IF a = fresh THEN NewNode(BNODE_LEAF) ELSE t.heap[a]

\* Node.getChild (i counts from 0)
getChild(t, n, i) ==
    IF i >= Len(n.pointers) THEN nil
    ELSE IF n.pointers[i + 1] \in DOMAIN t.nodeRelationships
    THEN t.nodeRelationships[n.pointers[i + 1]]
    ELSE fresh

\* Node.setChild on the node at a (i counts from 0): the pointer at i is
\* overwritten with the child's node ID, a new ID when the child has none.
setChild(t, a, i, child) ==
    LET n == t.heap[a]
        grown == IF i >= Len(n.pointers)
                 THEN n.pointers \o [k \in 1..(i - Len(n.pointers) + 1) |-> 0]
                 ELSE n.pointers
        known == {id \in DOMAIN t.nodeRelationships : t.nodeRelationships[id] = child}
        isNew == known = {} /\ child # nil
        nodeID == IF known # {} THEN CHOOSE id \in known : TRUE
                  ELSE IF child # nil THEN t.nextNodeID
                  ELSE 0
    IN [t EXCEPT
          !.heap[a].pointers = [grown EXCEPT ![i + 1] = nodeID],
          !.nodeRelationships = IF isNew THEN Append(@, child) ELSE @,
          !.nextNodeID = IF isNew THEN @ + 1 ELSE @]

\* BTree.findLeaf from the node at a: the leaf, or nil when the descent runs
\* into a nil child (n.typ of a nil *Node: the call panics).
RECURSIVE findLeaf(_, _, _)
findLeaf(t, a, key) ==
    IF a = nil THEN nil
    ELSE IF deref(t, a).typ = BNODE_LEAF THEN a
    ELSE LET n == t.heap[a]
             ks == keys(n)
             less == {i \in 1..Len(ks) : bytesCompare(key, ks[i]) < 0}
         IN IF less # {}
            THEN findLeaf(t, getChild(t, n, (CHOOSE i \in less : \A j \in less : i <= j) - 1), key)
            ELSE findLeaf(t, getChild(t, n, Len(ks)), key)

\* BTree.findParent below the node at a: the parent of target, or nil.
RECURSIVE findParent(_, _, _)
findParent(t, a, target) ==
    IF a = target \/ a = fresh THEN nil
    ELSE IF t.heap[a].typ = BNODE_LEAF THEN nil
    ELSE LET n == t.heap[a]
             found(i) == IF getChild(t, n, i - 1) = target THEN a
                         ELSE findParent(t, getChild(t, n, i - 1), target)
             hits == {i \in 1..Len(n.pointers) : found(i) # nil}
         IN IF hits = {} THEN nil
            ELSE found(CHOOSE i \in hits : \A j \in hits : i <= j)

\* The insertion position that insertInLeaf and insertInParent look for: the
\* number of keys before the first key greater than key.
position(ks, key) ==
    LET less == {i \in 1..Len(ks) : bytesCompare(key, ks[i]) < 0}
    IN IF less = {} THEN Len(ks) ELSE (CHOOSE i \in less : \A j \in less : i <= j) - 1

\* insertInLeaf without the test for a key the leaf already holds.
insertInLeafAnyKey(leaf, key, value) ==
    [err |-> "", leaf |-> insertKV(leaf, position(keys(leaf), key), key, value)]

\* BTree.insertInLeaf on a leaf node.
insertInLeaf(leaf, key, value) ==
    LET ks == keys(leaf)
        pos == position(ks, key)
    IN IF \E i \in 1..pos : bytesCompare(key, ks[i]) = 0
       THEN [err |-> "key already exists", leaf |-> leaf]
       ELSE [err |-> "", leaf |-> insertKV(leaf, pos, key, value)]

\* n.pointers[splitIdx:] of Node.Split is out of range.
SplitPanics(n) ==
    n.nkeys >= 2 /\ n.typ = BNODE_NODE /\ n.nkeys \div 2 > Len(n.pointers)

\* insertInParent with every split growing the tree at its root: the new node
\* becomes the sibling of the whole old tree.
insertInParentAtRoot(t, oldNode, key, newNode) ==
    LET newRoot == Len(t.heap) + 1
        t1 == [t EXCEPT !.heap = Append(@, insertKV(NewNode(BNODE_NODE), 0, key, NoBytes))]
        t2 == setChild(t1, newRoot, 0, t.root)
        t3 == setChild(t2, newRoot, 1, newNode)
    IN [t |-> [t3 EXCEPT !.root = newRoot], panic |-> FALSE]

\* BTree.insertInParent: the tree after it and whether it panicked.  A right
\* node that Split returned is allocated before the call.
RECURSIVE insertInParent(_, _, _, _)
insertInParent(t, oldNode, key, newNode) ==
    IF oldNode = t.root
    THEN LET newRoot == Len(t.heap) + 1
             t1 == [t EXCEPT !.heap = Append(@, insertKV(NewNode(BNODE_NODE), 0, key, NoBytes))]
             t2 == setChild(t1, newRoot, 0, oldNode)
             t3 == setChild(t2, newRoot, 1, newNode)
         IN [t |-> [t3 EXCEPT !.root = newRoot], panic |-> FALSE]
    ELSE LET parent == findParent(t, t.root, oldNode)
         IN IF parent = nil THEN [t |-> t, panic |-> TRUE]
            ELSE LET pos == position(keys(t.heap[parent]), key)
                     t1 == [t EXCEPT !.heap[parent] = insertKV(@, pos, key, NoBytes)]
                     t2 == setChild(t1, parent, pos + 1, newNode)
                     p2 == t2.heap[parent]
                 IN IF ~IsFull(p2) THEN [t |-> t2, panic |-> FALSE]
                    ELSE IF SplitPanics(p2) THEN [t |-> t2, panic |-> TRUE]
                    ELSE LET sp == Split(p2)
                         IN IF ~sp.ok
                            THEN insertInParent(t2, parent, NoBytes, nil)
                            ELSE insertInParent(
                                    [t2 EXCEPT !.heap = Append([@ EXCEPT ![parent] = sp.left],
                                                               sp.right)],
                                    parent, sp.promotedKey, Len(t2.heap) + 1)

KeyTooLarge == "key too large"
ValueTooLarge == "value too large"
KeyExists == "key already exists"
KeyNotFound == "key not found"

\* The outcome of a tree operation: the tree after it, the error ("" is nil),
\* the value returned and whether the call panicked.
outcome(t, err, value, panic) == [t |-> t, err |-> err, value |-> value, panic |-> panic]

\* BTree.Insert
Insert(t, key, value) ==
    IF key.n > BTREE_MAX_KEY_SIZE THEN outcome(t, KeyTooLarge, NoBytes, FALSE)
    ELSE IF value.n > BTREE_MAX_VAL_SIZE THEN outcome(t, ValueTooLarge, NoBytes, FALSE)
    ELSE LET leaf == findLeaf(t, t.root, key)
         IN IF leaf = nil THEN outcome(t, "", NoBytes, TRUE)
            ELSE LET r == insertInLeaf(deref(t, leaf), key, value)
                 IN IF r.err # "" THEN outcome(t, r.err, NoBytes, FALSE)
                    ELSE IF leaf = fresh
                    THEN outcome([t EXCEPT !.size = @ + 1], "", NoBytes, FALSE)
                    ELSE IF ~IsFull(r.leaf)
                    THEN outcome([t EXCEPT !.heap[leaf] = r.leaf, !.size = @ + 1],
                                 "", NoBytes, FALSE)
                    ELSE LET sp == Split(r.leaf)
                             t1 == IF sp.ok
                                   THEN [t EXCEPT !.heap = Append([@ EXCEPT ![leaf] = sp.left],
                                                                  sp.right)]
                                   ELSE [t EXCEPT !.heap[leaf] = r.leaf]
                             par == insertInParent(t1, leaf, sp.promotedKey,
                                                   IF sp.ok THEN Len(t.heap) + 1 ELSE nil)
                         IN IF par.panic THEN outcome(par.t, "", NoBytes, TRUE)
                            ELSE outcome([par.t EXCEPT !.size = @ + 1], "", NoBytes, FALSE)

\* BTree.Get
Get(t, key) ==
    LET leaf == findLeaf(t, t.root, key)
    IN IF leaf = nil THEN outcome(t, "", NoBytes, TRUE)
       ELSE LET n == deref(t, leaf)
                ks == keys(n)
                at == {i \in 1..Len(ks) : bytesCompare(key, ks[i]) = 0}
            IN IF at = {} THEN outcome(t, KeyNotFound, NoBytes, FALSE)
               ELSE outcome(t, "", getValue(n, (CHOOSE i \in at : \A j \in at : i <= j) - 1),
                            FALSE)

\* BTree.redistribute: its body is empty.
redistribute(t, left, right, parent, pos) == t

\* BTree.merge: its body is empty.
merge(t, left, right, parent, pos) == t

\* BTree.rebalance of the node at a.
rebalance(t, a) ==
    LET parent == findParent(t, t.root, a)
    IN IF parent = nil THEN t
       ELSE LET n == t.heap[parent]
                pos == (CHOOSE i \in 1..Len(n.pointers) :
                           /\ getChild(t, n, i - 1) = a
                           /\ \A j \in 1..(i - 1) : getChild(t, n, j - 1) # a) - 1
            IN IF pos > 0 /\ ~IsFull(deref(t, getChild(t, n, pos - 1)))
               THEN redistribute(t, getChild(t, n, pos - 1), a, parent, pos - 1)
               ELSE IF pos < Len(n.pointers) - 1 /\ ~IsFull(deref(t, getChild(t, n, pos + 1)))
               THEN redistribute(t, a, getChild(t, n, pos + 1), parent, pos)
               ELSE IF pos > 0
               THEN merge(t, getChild(t, n, pos - 1), a, parent, pos - 1)
               ELSE merge(t, a, getChild(t, n, pos + 1), parent, pos)

\* BTree.Delete
Delete(t, key) ==
    LET leaf == findLeaf(t, t.root, key)
    IN IF leaf = nil THEN outcome(t, "", NoBytes, TRUE)
       ELSE LET n == deref(t, leaf)
                ks == keys(n)
                at == {i \in 1..Len(ks) : bytesCompare(key, ks[i]) = 0}
            IN IF at = {} THEN outcome(t, KeyNotFound, NoBytes, FALSE)
               ELSE LET pos == (CHOOSE i \in at : \A j \in at : i <= j) - 1
                        t1 == [t EXCEPT !.heap[leaf] = removeKV(n, pos)]
                        t2 == IF IsEmpty(t1.heap[leaf]) /\ leaf # t.root
                              THEN rebalance(t1, leaf)
                              ELSE t1
                    IN outcome([t2 EXCEPT !.size = @ - 1], "", NoBytes, FALSE)

\* BTree.Size
Size(t) == t.size

\* BTree.Height: the number of steps down the first children to a leaf.
RECURSIVE heightFrom(_, _)
heightFrom(t, a) ==
    IF a = nil THEN 0
    ELSE IF deref(t, a).typ = BNODE_LEAF THEN 0
    ELSE 1 + heightFrom(t, getChild(t, t.heap[a], 0))

Height(t) == heightFrom(t, t.root)

\* Node.children of the node at a: the children its pointers lead to.
children(t, a) ==
    LET n == deref(t, a)
    IN {getChild(t, n, i) : i \in 0..(Len(n.pointers) - 1)}

\* The nodes of the tree: the root and what the pointers lead to, with the
\* depth each one is found at.
RECURSIVE nodesFrom(_, _, _)
nodesFrom(t, a, depth) ==
    {<<a, depth>>} \cup
    UNION {nodesFrom(t, c, depth + 1) : c \in children(t, a) \ {nil, fresh}}

treeNodes(t) == {p[1] : p \in nodesFrom(t, t.root, 0)}

\* ------------------------------------------------------ B+Tree: operations
\* Number of tree calls (Insert, Delete, Get) made in one behaviour.
MaxOps == 7

\* The keys and values of the calls: 1000-byte keys that differ in their byte,
\* a key and a value one byte over the limits, a one-byte and a 3000-byte value.
TreeKeys == {bytes(b, BTREE_MAX_KEY_SIZE) : b \in 1..6}
LongKey == bytes(1, BTREE_MAX_KEY_SIZE + 1)
TreeValues == {bytes(9, 1), bytes(9, BTREE_MAX_VAL_SIZE)}
LongValue == bytes(9, BTREE_MAX_VAL_SIZE + 1)

called(op, r, n) == [op |-> op, err |-> r.err, value |-> r.value, panic |-> r.panic, n |-> n]

\* A new tree, no call made yet.
InitTree ==
    /\ tree = NewBTree
    /\ sortedMap = <<>>
    /\ last = called("", outcome(tree, "", NoBytes, FALSE), 0)

\* A call is made while the process lives (no call has panicked).
canCall == ~last.panic /\ last.n < MaxOps

\* The sorted map's insert: a key it holds keeps its value, a key or value over
\* the limits is not taken.
mapInsert(m, key, value) ==
    IF key \in DOMAIN m \/ key.n > BTREE_MAX_KEY_SIZE \/ value.n > BTREE_MAX_VAL_SIZE
    THEN m
    ELSE [k \in DOMAIN m \cup {key} |-> IF k = key THEN value ELSE m[k]]

mapDelete(m, key) == [k \in DOMAIN m \ {key} |-> m[k]]

\* tree.Insert(key, value)
TreeInsert(key, value) ==
    /\ canCall
    /\ LET r == Insert(tree, key, value)
       IN /\ tree' = r.t
          /\ last' = called("Insert", r, last.n + 1)
    /\ sortedMap' = mapInsert(sortedMap, key, value)
    /\ UNCHANGED <<raftVars, engineVars, handled, monitor>>

\* tree.Delete(key)
TreeDelete(key) ==
    /\ canCall
    /\ LET r == Delete(tree, key)
       IN /\ tree' = r.t
          /\ last' = called("Delete", r, last.n + 1)
    /\ sortedMap' = mapDelete(sortedMap, key)
    /\ UNCHANGED <<raftVars, engineVars, handled, monitor>>

\* tree.Get(key)
TreeGet(key) ==
    /\ canCall
    /\ last' = called("Get", Get(tree, key), last.n + 1)
    /\ UNCHANGED <<tree, sortedMap>>
    /\ UNCHANGED <<raftVars, engineVars, handled, monitor>>

\* ------------------------------------------------------------ StorageEngine
\* Number of calls made on a StorageEngine in one behaviour, the calls of
\* NewStorageEngine and Close included.
MaxEngineCalls == 5
\* Number of goroutines that run Put; Get; Delete side by side.
NumGoroutines == 3

MAGIC == 305419896
VERSION == 1

\* binary.BigEndian.PutUint32: the four bytes of a uint32, high byte first.
word32(x) == <<(x \div 16777216) % 256, (x \div 65536) % 256, (x \div 256) % 256, x % 256>>

\* buf[:n], for n <= len(buf)
RECURSIVE bufTake(_, _)
bufTake(buf, n) ==
    IF n = 0 \/ buf = <<>> THEN <<>>
    ELSE IF n >= Head(buf).n THEN concat(<<Head(buf)>>, bufTake(Tail(buf), n - Head(buf).n))
    ELSE <<bytes(Head(buf).b, n)>>

\* file.Write of data at offset off: the bytes there are overwritten, the file
\* grows when the write ends past its end, and is never cut.
writeAt(f, off, data) ==
    concat(concat(bufTake(f, off), data), bufFrom(f, off + bufLen(data)))

\* The keys and values of the engine's callers.
EngineKeys == {bytes(b, BTREE_MAX_KEY_SIZE) : b \in 1..NumGoroutines}

InvalidFile == "invalid database file"
UnsupportedVersion == "unsupported database version"
EOF_ == "EOF"

\* StorageEngine.initialize: a new file gets the header, the header of an old
\* file is verified. Nothing else of the file is read.
initialize(f) ==
    IF bufLen(f) = 0
    THEN [err |-> "", file |-> wordBytes(word32(MAGIC) \o word32(VERSION))]
    ELSE IF bufLen(f) < 8 THEN [err |-> EOF_, file |-> f]
    ELSE IF [i \in 1..4 |-> byteAt(f, i - 1)] # word32(MAGIC)
    THEN [err |-> InvalidFile, file |-> f]
    ELSE IF [i \in 1..4 |-> byteAt(f, 3 + i)] # word32(VERSION)
    THEN [err |-> UnsupportedVersion, file |-> f]
    ELSE [err |-> "", file |-> f]

\* btree.NewBTree in a process that has built trees before: the node registry
\* and the ID counter are package variables and live on.
NewBTreeAfter(t) ==
    [root |-> Len(t.heap) + 1, size |-> 0, heap |-> Append(t.heap, NewNode(BNODE_LEAF)),
     nodeRelationships |-> t.nodeRelationships, nextNodeID |-> t.nextNodeID]

\* NewStorageEngine on the file f; old is the tree the process held before,
\* NewBTree in a new process.
NewStorageEngine(f, old, sameProcess) ==
    LET i == initialize(f)
    IN [err |-> i.err, file |-> i.file,
        btree |-> IF sameProcess THEN NewBTreeAfter(old) ELSE NewBTree]

\* serializeNode: eight zero bytes of "metadata", whatever the tree holds.
serializeNode(t) == repeat(0, 8)

\* StorageEngine.flush: Size and Height at offset 8, then serializeNode's bytes
\* when the tree is not empty.
flush(t, f) ==
    LET f1 == writeAt(f, 8, wordBytes(word32(Size(t)) \o word32(Height(t))))
    IN IF Size(t) > 0 THEN writeAt(f1, 16, serializeNode(t)) ELSE f1

\* No engine yet, no file, no goroutine started.
NoEngine == [status |-> "none", before |-> NewBTree]

InitEngine ==
    /\ file = <<>>
    /\ engine = NoEngine
    /\ pc = <<>>

engineLives == engine.status = "open" /\ ~last.panic /\ last.n < MaxEngineCalls

\* NewStorageEngine(filename): the first open, a reopen after Close in the same
\* process, or the open of a new process after a crash.
Open ==
    /\ engine.status \in {"none", "closed", "crashed"}
    /\ last.n < MaxEngineCalls
    /\ LET r == NewStorageEngine(file, tree, engine.status = "closed")
       IN /\ file' = r.file
          /\ tree' = r.btree
          /\ engine' = [engine EXCEPT !.status = IF r.err = "" THEN "open" ELSE @]
          /\ last' = called("NewStorageEngine", [err |-> r.err, value |-> NoBytes, panic |-> FALSE],
                            last.n + 1)
    /\ UNCHANGED <<sortedMap, pc>>
    /\ UNCHANGED <<raftVars, handled, monitor>>

\* StorageEngine.Put under e.mu.Lock, on the engine whose btree is tree and
\* whose file is file: Insert, and flush when Insert returned no error.
EnginePut(key, value) ==
    LET r == Insert(tree, key, value)
    IN /\ tree' = r.t
       /\ last' = called("Put", r, last.n + 1)
       /\ file' = IF r.err = "" /\ ~r.panic THEN flush(r.t, file) ELSE file
       /\ sortedMap' = IF r.err = "" /\ ~r.panic
                       THEN mapInsert(sortedMap, key, value) ELSE sortedMap

\* StorageEngine.Get under e.mu.RLock
EngineGet(key) ==
    /\ last' = called("Get", Get(tree, key), last.n + 1)
    /\ UNCHANGED <<tree, file, sortedMap>>

\* StorageEngine.Delete under e.mu.Lock
EngineDelete(key) ==
    LET r == Delete(tree, key)
    IN /\ tree' = r.t
       /\ last' = called("Delete", r, last.n + 1)
       /\ file' = IF r.err = "" /\ ~r.panic THEN flush(r.t, file) ELSE file
       /\ sortedMap' = IF r.err = "" /\ ~r.panic THEN mapDelete(sortedMap, key) ELSE sortedMap

\* engine.Put(key, value), one caller at a time
Put(key, value) ==
    /\ engineLives
    /\ EnginePut(key, value)
    /\ UNCHANGED <<engine, pc>>
    /\ UNCHANGED <<raftVars, handled, monitor>>

\* engine.Get(key)
GetKey(key) ==
    /\ engineLives
    /\ EngineGet(key)
    /\ UNCHANGED <<engine, pc>>
    /\ UNCHANGED <<raftVars, handled, monitor>>

\* engine.Delete(key)
DeleteKey(key) ==
    /\ engineLives
    /\ EngineDelete(key)
    /\ UNCHANGED <<engine, pc>>
    /\ UNCHANGED <<raftVars, handled, monitor>>

\* engine.Close(): flush, then file.Close. The handle remembers the tree it
\* held.
Close ==
    /\ engineLives
    /\ file' = flush(tree, file)
    /\ engine' = [status |-> "closed", before |-> tree]
    /\ last' = called("Close", [err |-> "", value |-> NoBytes, panic |-> FALSE], last.n + 1)
    /\ UNCHANGED <<tree, sortedMap, pc>>
    /\ UNCHANGED <<raftVars, handled, monitor>>

\* The process is killed between two calls: the file stays as the last call
\* left it.
Crash ==
    /\ engineLives
    /\ engine' = [status |-> "crashed", before |-> tree]
    /\ last' = called("Crash", [err |-> "", value |-> NoBytes, panic |-> FALSE], last.n)
    /\ UNCHANGED <<tree, sortedMap, file, pc>>
    /\ UNCHANGED <<raftVars, handled, monitor>>

\* The goroutines of the concurrent callers: goroutine g runs Put(key, value);
\* Get(key); Delete(key) on its own key. Every call runs under e.mu, so a call
\* is one step.
Goroutines == 1..NumGoroutines
goKey(g) == bytes(g, BTREE_MAX_KEY_SIZE)

started(value) == [at |-> "Put", value |-> value, put |-> "", get |-> "", got |-> NoBytes, del |-> ""]

\* go func(i int) {...}(i), for every i: each goroutine has its value.
Go ==
    /\ engine.status = "open"
    /\ pc = <<>>
    /\ \E vs \in [Goroutines -> TreeValues] : pc' = [g \in Goroutines |-> started(vs[g])]
    /\ UNCHANGED <<tree, sortedMap, last, file, engine>>
    /\ UNCHANGED <<raftVars, handled, monitor>>

\* A goroutine takes its next step while the process lives.
goAt(g, at) == engine.status = "open" /\ ~last.panic /\ g \in DOMAIN pc /\ pc[g].at = at

GoPut(g) ==
    /\ goAt(g, "Put")
    /\ EnginePut(goKey(g), pc[g].value)
    /\ pc' = [pc EXCEPT ![g].at = "Get", ![g].put = last'.err]
    /\ UNCHANGED engine
    /\ UNCHANGED <<raftVars, handled, monitor>>

GoGet(g) ==
    /\ goAt(g, "Get")
    /\ EngineGet(goKey(g))
    /\ pc' = [pc EXCEPT ![g].at = "Delete", ![g].get = last'.err, ![g].got = last'.value]
    /\ UNCHANGED engine
    /\ UNCHANGED <<raftVars, handled, monitor>>

GoDelete(g) ==
    /\ goAt(g, "Delete")
    /\ EngineDelete(goKey(g))
    /\ pc' = [pc EXCEPT ![g].at = "done", ![g].del = last'.err]
    /\ UNCHANGED engine
    /\ UNCHANGED <<raftVars, handled, monitor>>

\* A replica whose storage is the engine (storage.CustomStorage): the commands
\* of its committed entries, as buffers.  'P' 'U' 'T' 'D' 'E' 'L' and ' ' are
\* the bytes 80, 85, 84, 68, 69, 76 and 32.
SPACE == repeat(32, 1)
PUT_ == concat(concat(concat(repeat(80, 1), repeat(85, 1)), repeat(84, 1)), SPACE)
DEL_ == concat(concat(concat(repeat(68, 1), repeat(69, 1)), repeat(76, 1)), SPACE)
EnginePutCommand(key, value) == concat(concat(concat(PUT_, <<key>>), SPACE), <<value>>)
EngineDelCommand(key) == concat(DEL_, <<key>>)
EngineCommands ==
    {EnginePutCommand(k, v) : k \in EngineKeys, v \in TreeValues}
        \cup {EngineDelCommand(k) : k \in EngineKeys}

\* The loop of applyCommittedEntries that looks for the first space, on a
\* buffer: the position of the first byte 32, -1 when there is none.
bufSpaceIndex(buf) ==
    LET at == {i \in 0..(bufLen(buf) - 1) : byteAt(buf, i) = 32}
    IN IF at = {} THEN -1 ELSE CHOOSE i \in at : \A j \in at : i <= j

\* A buffer of one run as the slice the tree takes.
slice(buf) == IF buf = <<>> THEN NoBytes ELSE buf[1]

\* applyCommittedEntries on one committed entry, storage being the engine:
\* what Put or Delete returns is dropped.
applyToEngine(cmd) ==
    IF bufTake(cmd, 4) = PUT_
    THEN LET keyValue == bufFrom(cmd, 4)
             sp == bufSpaceIndex(keyValue)
         IN IF sp > 0
            THEN EnginePut(slice(bufTake(keyValue, sp)), slice(bufFrom(keyValue, sp + 1)))
            ELSE UNCHANGED <<tree, last, file, sortedMap>>
    ELSE IF bufTake(cmd, 4) = DEL_
    THEN EngineDelete(slice(bufFrom(cmd, 4)))
    ELSE UNCHANGED <<tree, last, file, sortedMap>>

Apply(cmd) ==
    /\ engineLives
    /\ applyToEngine(cmd)
    /\ handled' = [kind |-> "apply", Command |-> cmd, n |-> last.n + 1]
    /\ UNCHANGED <<engine, pc>>
    /\ UNCHANGED <<raftVars, monitor>>

\* ------------------------------------------------------ the registry's monitor
\* GlobalCluster.StartHeartbeatMonitor: on every tick of its ticker the task
\* asks each registered replica IsLeader, and with more than one leader found
\* it steps down all but one of the highest term.
NoRun == [pc |-> "idle", seen |-> {}, leaders |-> {}]

\* RaftNode.IsLeader, under mu.RLock.
IsLeader(nd) == nd.state = Leader

\* RaftNode.StepDown, under mu.Lock.
StepDown(nd) ==
    IF nd.state = Leader
    THEN [nd EXCEPT !.state = Follower, !.votedFor = NoVote]
    ELSE nd

\* The ticker fires and the loop body starts with an empty list of leaders.
monitorTick ==
    /\ monitor.pc = "idle"
    /\ monitor' = [pc |-> "scan", seen |-> {}, leaders |-> {}]
    /\ UNCHANGED <<raftVars, treeVars, engineVars, handled>>

\* One turn of "for _, node := range gc.nodes": the map is ranged over in any
\* order, and IsLeader waits for the replica's lock.
monitorIsLeader(n) ==
    /\ monitor.pc = "scan"
    /\ n \in Nodes \ monitor.seen
    /\ node[n].mu = "unlocked"
    /\ monitor' = [pc |-> IF monitor.seen \cup {n} = Nodes THEN "resolve" ELSE "scan",
                   seen |-> monitor.seen \cup {n},
                   leaders |-> IF IsLeader(node[n]) THEN monitor.leaders \cup {n}
                                                    ELSE monitor.leaders]
    /\ UNCHANGED <<raftVars, treeVars, engineVars, handled>>

\* The rest of the loop body: with more than one leader in the list, GetState
\* of each (under mu.RLock) finds one of the highest term, the first of them in
\* the list's order, and every other one is told to StepDown (under mu.Lock).
monitorResolve ==
    /\ monitor.pc = "resolve"
    /\ IF Cardinality(monitor.leaders) > 1
       THEN /\ \A n \in monitor.leaders : node[n].mu = "unlocked"
            /\ \E highestTermLeader \in monitor.leaders :
                  /\ \A n \in monitor.leaders :
                        node[n].currentTerm <= node[highestTermLeader].currentTerm
                  /\ node' = [n \in Nodes |->
                                IF n \in monitor.leaders \ {highestTermLeader}
                                THEN StepDown(node[n]) ELSE node[n]]
       ELSE UNCHANGED node
    /\ monitor' = NoRun
    /\ UNCHANGED <<up, rpcs, votes, successCount, chan, run, calls>>
    /\ UNCHANGED <<treeVars, engineVars, handled>>

\* ------------------------------------------------- one replica on the network
\* One replica and what reaches it from its peers: the requests its RPC server
\* takes from the network and the responses its vote goroutines get back.
MaxLog == 3

Receiver == "node1"
Senders == {"node2"}

\* The entry a leader of term t holds at index i (handleClientRequest): a put
\* in term 1, a delete in the terms after it.
entryOf(t, i) ==
    [Term |-> t, Index |-> i,
     Command |-> IF t = 1 THEN PutCommand(<<"k">>, <<"v">>) ELSE DelCommand(<<"k">>)]

\* RequestVoteRequest, as a candidate of term Term builds it: the index and
\* term of the last entry of its log, (0, 0) for an empty log.
VoteRequests ==
    {req \in [Term : 1..MaxTerm, CandidateID : Senders, LastLogIndex : 0..MaxLog,
              LastLogTerm : 0..MaxTerm] :
        /\ (req.LastLogIndex = 0) = (req.LastLogTerm = 0)
        /\ req.LastLogTerm <= req.Term}

\* The terms of the entries a leader of term t sends after an entry of term
\* pt: none (a heartbeat), one or two, never falling and none above t.
entryTerms(t, pt) ==
    {ts \in {<<>>} \cup {<<a>> : a \in 1..MaxTerm}
                   \cup {<<a, b>> : a \in 1..MaxTerm, b \in 1..MaxTerm} :
        ts # <<>> => /\ ts[1] >= pt
                     /\ ts[Len(ts)] <= t
                     /\ ts[1] <= ts[Len(ts)]}

\* AppendEntriesRequest, as a leader of term Term builds it: the heartbeats and
\* the requests with one or two entries after PrevLogIndex.
prevTerms(t, pi) == {x \in 0..MaxTerm : (x = 0) = (pi = 0) /\ x <= t}

AppendRequests ==
    UNION {UNION {{[Term |-> t, LeaderID |-> "node2", PrevLogIndex |-> pi,
                    PrevLogTerm |-> pt,
                    Entries |-> [i \in 1..Len(ts) |-> entryOf(ts[i], pi + i)],
                    LeaderCommit |-> lc] : ts \in entryTerms(t, pt), lc \in 0..MaxLog} :
                  pt \in prevTerms(t, pi)} :
           t \in 1..MaxTerm, pi \in 0..(MaxLog - 1)}

\* RequestVoteResponse of a peer to a request of term t: its own term, which
\* is t or above, and its vote, granted only in term t.
VoteResponses(t) ==
    {resp \in [Term : t..MaxTerm, VoteGranted : BOOLEAN] :
        resp.VoteGranted => resp.Term = t}

\* AppendEntries setting lastHeartbeat before its term check.
AppendEntriesBeatsFirst(nd, req) == TRUE

\* Whether the handler sets lastHeartbeat = time.Now().
RequestVoteBeats(nd, req) == RequestVote(nd, req).resp.VoteGranted
AppendEntriesBeats(nd, req) == req.Term >= nd.currentTerm

\* The RPC step taken last: the handler or response goroutine that ran, the
\* replica before and after it, what came in and what was answered.
step(kind, before, after, msg, resp, beats, panic) ==
    [kind |-> kind, before |-> before, after |-> after, msg |-> msg, resp |-> resp,
     beats |-> beats, panic |-> panic]

\* No RPC step taken yet.
NoStep == [kind |-> ""]

InitHandlers ==
    /\ node = [n \in {Receiver} |-> NewRaftNode(Receiver, Senders)]
    /\ up = {Receiver}
    /\ rpcs = {}
    /\ votes = [n \in {Receiver} |-> [t \in 1..MaxTerm |-> 0]]
    /\ successCount = [n \in {Receiver} |-> [c \in 1..MaxCalls |-> 0]]
    /\ chan = [n \in {Receiver} |-> <<>>]
    /\ run = [n \in {Receiver} |-> idle]
    /\ calls = <<>>
    /\ InitTree
    /\ InitEngine
    /\ handled = NoStep
    /\ monitor = NoRun

\* A request from the network reaches the replica's RPC server, which takes
\* one call after the other.
inFlight(rpc, req) == [kind |-> "called", rpc |-> rpc, msg |-> req]

callRequestVote(req) ==
    /\ Receiver \in up
    /\ handled = NoStep
    /\ handled' = inFlight("RequestVote", req)
    /\ UNCHANGED <<raftVars, treeVars, engineVars, monitor>>

callAppendEntries(req) ==
    /\ Receiver \in up
    /\ handled = NoStep
    /\ AppendEntriesPanics(node[Receiver], req)
          \/ Len(AppendEntries(node[Receiver], req).nd.log) <= MaxLog
    /\ handled' = inFlight("AppendEntries", req)
    /\ UNCHANGED <<raftVars, treeVars, engineVars, monitor>>

\* The RPC server runs RaftRPC.RequestVote under the replica's mu.Lock.
serveRequestVote ==
    /\ handled.kind = "called" /\ handled.rpc = "RequestVote"
    /\ Receiver \in up
    /\ node[Receiver].mu = "unlocked"
    /\ LET r == RequestVote(node[Receiver], handled.msg)
       IN /\ node' = [node EXCEPT ![Receiver] = r.nd]
          /\ handled' = step("RequestVote", node[Receiver], r.nd, handled.msg, r.resp,
                             RequestVoteBeats(node[Receiver], handled.msg), FALSE)
    /\ UNCHANGED <<up, rpcs, votes, successCount, chan, run, calls>>
    /\ UNCHANGED <<treeVars, engineVars, monitor>>

\* The RPC server runs RaftRPC.AppendEntries under the replica's mu.Lock; a
\* panic of the handler ends the process.
serveAppendEntries ==
    /\ handled.kind = "called" /\ handled.rpc = "AppendEntries"
    /\ Receiver \in up
    /\ node[Receiver].mu = "unlocked"
    /\ IF AppendEntriesPanics(node[Receiver], handled.msg)
       THEN /\ up' = up \ {Receiver}
            /\ rpcs' = withoutProcess(rpcs, Receiver)
            /\ handled' = step("AppendEntries", node[Receiver], node[Receiver], handled.msg,
                               NoResp,
                               TRUE, TRUE)
            /\ UNCHANGED node
       ELSE LET r == AppendEntries(node[Receiver], handled.msg)
            IN /\ node' = [node EXCEPT ![Receiver] = r.nd]
               /\ handled' = step("AppendEntries", node[Receiver], r.nd, handled.msg, r.resp,
                                  AppendEntriesBeats(node[Receiver], handled.msg), FALSE)
               /\ UNCHANGED <<up, rpcs>>
    /\ UNCHANGED <<votes, successCount, chan, run, calls>>
    /\ UNCHANGED <<treeVars, engineVars, monitor>>

\* The response goes back to the caller: the call is over.
reply ==
    /\ handled.kind \in {"RequestVote", "AppendEntries", "voteReturn"}
    /\ handled' = NoStep
    /\ UNCHANGED <<raftVars, treeVars, engineVars, monitor>>

\* The election timer of the replica fires (startElection).
electionTimeout ==
    /\ node[Receiver].state # Leader
    /\ timers(Receiver)
    /\ UNCHANGED <<treeVars, engineVars, handled, monitor>>

\* A vote goroutine builds its request and sends it (sendRequestVote).
callPeer(g) ==
    /\ g.kind = "vote"
    /\ g.phase = "spawned"
    /\ g.from \in up
    /\ rpcs' = (rpcs \ {g}) \cup
                  {[g EXCEPT !.phase = "called", !.req = buildRequest(g, node[g.from])]}
    /\ UNCHANGED <<node, up, votes, successCount, chan, run, calls, handled>>
    /\ UNCHANGED <<treeVars, engineVars, monitor>>

\* sendRequestVote returns an error: the goroutine logs it and returns.
callFails(g) ==
    /\ g.kind = "vote"
    /\ g.from \in up
    /\ rpcs' = rpcs \ {g}
    /\ UNCHANGED <<node, up, votes, successCount, chan, run, calls, handled>>
    /\ UNCHANGED <<treeVars, engineVars, monitor>>

\* The peer's response is in: the vote goroutine takes mu.Lock and integrates
\* it.
voteReturns(g, resp) ==
    /\ g.kind = "vote"
    /\ g.phase = "called"
    /\ g.from \in up
    /\ node[g.from].mu = "unlocked"
    /\ handled = NoStep
    /\ resp \in VoteResponses(g.req.Term)
    /\ LET r == voteReturn(node[g.from], resp, votes[g.from][g.id])
       IN /\ node' = [node EXCEPT ![g.from] = r.nd]
          /\ votes' = [votes EXCEPT ![g.from][g.id] = r.votes]
          /\ handled' = step("voteReturn", node[g.from], r.nd, g.req, resp, FALSE, FALSE)
    /\ rpcs' = rpcs \ {g}
    /\ UNCHANGED <<up, successCount, chan, run, calls>>
    /\ UNCHANGED <<treeVars, engineVars, monitor>>

\* ------------------------------------------------------- StepDown on a replica
\* The replicas StepDown and RequestVote are called on: of any role and term,
\* a Candidate or Leader having voted for itself in its term.
ReplicaStates ==
    {[NewRaftNode(Receiver, Senders) EXCEPT !.state = s, !.currentTerm = t, !.votedFor = v] :
        s \in {Follower, Candidate, Leader}, t \in 1..MaxTerm, v \in {NoVote, Receiver} \cup Senders}

InitStepDown ==
    /\ node \in [{Receiver} -> {nd \in ReplicaStates : nd.state # Follower => nd.votedFor = Receiver}]
    /\ up = {Receiver}
    /\ rpcs = {}
    /\ votes = [n \in {Receiver} |-> [t \in 1..MaxTerm |-> 0]]
    /\ successCount = [n \in {Receiver} |-> [c \in 1..MaxCalls |-> 0]]
    /\ chan = [n \in {Receiver} |-> <<>>]
    /\ run = [n \in {Receiver} |-> idle]
    /\ calls = <<>>
    /\ InitTree
    /\ InitEngine
    /\ handled = NoStep
    /\ monitor = NoRun

\* A caller runs RaftNode.StepDown on the replica, under its mu.Lock.
callStepDown ==
    /\ Receiver \in up
    /\ handled = NoStep
    /\ node[Receiver].mu = "unlocked"
    /\ node' = [node EXCEPT ![Receiver] = StepDown(@)]
    /\ UNCHANGED <<up, rpcs, votes, successCount, chan, run, calls>>
    /\ UNCHANGED <<treeVars, engineVars, handled, monitor>>

\* ------------------------------------------------------ the two apply paths
\* The keys and values a client hands to Put and Delete: any bytes, the space
\* and the empty value among them.
AnyKeys == {<<"k">>, <<"j">>}
AnyValues == {<<"v">>, <<"v", " ", "w">>, <<>>}

\* The command handleClientRequest encodes for a request.
encode(op, key, value) == IF op = "put" THEN PutCommand(key, value) ELSE DelCommand(key)

\* One entry goes through both apply paths: the replica that took the request
\* appends it and applies it with applyEntry, the other replica appends it
\* and applies it with applyCommittedEntries.
applyOnBoth(leader, follower, op, key, value) ==
    /\ leader # follower
    /\ Len(node[leader].log) < MaxLog
    /\ LET entry == [Term |-> node[leader].currentTerm,
                     Index |-> Len(node[leader].log) + 1,
                     Command |-> encode(op, key, value)]
           l1 == [node[leader] EXCEPT !.log = Append(@, entry),
                                      !.commitIndex = entry.Index,
                                      !.lastApplied = entry.Index,
                                      !.storage = applyEntry(@, entry)]
           f1 == applyCommittedEntries(
                     [node[follower] EXCEPT !.log = Append(@, entry),
                                            !.commitIndex = entry.Index])
       IN node' = [node EXCEPT ![leader] = l1, ![follower] = f1]
    /\ UNCHANGED <<up, rpcs, votes, successCount, chan, run, calls>>
    /\ UNCHANGED <<treeVars, engineVars, handled, monitor>>

\* ----------------------------------------------------------- specifications
InitCluster(ids) ==
    /\ node = NewCluster(ids)
    /\ up = ids
    /\ rpcs = {}
    /\ votes = [n \in ids |-> [t \in 1..MaxTerm |-> 0]]
    /\ successCount = [n \in ids |-> [c \in 1..MaxCalls |-> 0]]
    /\ chan = [n \in ids |-> <<>>]
    /\ run = [n \in ids |-> idle]
    /\ calls = <<>>
    /\ InitTree
    /\ InitEngine
    /\ handled = NoStep
    /\ monitor = NoRun

\* Three replicas, the cluster of the example scripts.
Init == InitCluster({"node1", "node2", "node3"})

\* RaftStorage.Get: the facade looks its own node up in the registry and calls
\* node.Get, which is SubmitRequest("get", key, nil); it checks no leadership
\* and adds nothing to the answer.
RaftStorageGet(n, key) == SubmitRequest(n, "get", key, <<>>)

Submit ==
    \/ \E n \in Nodes, op \in Operations, k \in Keys, v \in Values :
          SubmitRequest(n, op, k, IF op = "put" THEN v ELSE <<>>)
    \/ \E n \in Nodes, k \in Keys : RaftStorageGet(n, k)

Next ==
    \/ /\ \E n \in Nodes : timers(n)
       /\ UNCHANGED <<treeVars, engineVars, handled, monitor>>
    \/ /\ \E g \in rpcs : rpcCall(g)
       /\ UNCHANGED <<treeVars, engineVars, handled, monitor>>
    \/ /\ \E g \in rpcs : rpcServe(g)
       /\ UNCHANGED <<treeVars, engineVars, handled, monitor>>
    \/ /\ \E g \in rpcs : rpcReturn(g)
       /\ UNCHANGED <<treeVars, engineVars, handled, monitor>>
    \/ /\ Submit
       /\ UNCHANGED <<treeVars, engineVars, handled, monitor>>
    \/ /\ \E n \in Nodes : runLoop(n)
       /\ UNCHANGED <<treeVars, engineVars, handled, monitor>>
    \/ /\ \E c \in 1..Len(calls) : responseTimeout(c)
       /\ UNCHANGED <<treeVars, engineVars, handled, monitor>>

Spec == Init /\ [][Next]_vars


\* -------------------------------------------------- one replica, no peers
InitSingle == InitCluster({"node1"})

\* With no peers there is no RPC goroutine, and the lock is never held for ever.
NextSingle ==
    \/ /\ \E n \in Nodes : timers(n)
       /\ UNCHANGED <<treeVars, engineVars, handled, monitor>>
    \/ /\ Submit
       /\ UNCHANGED <<treeVars, engineVars, handled, monitor>>
    \/ /\ \E n \in Nodes : runLoop(n)
       /\ UNCHANGED <<treeVars, engineVars, handled, monitor>>

\* The timers and the run loop are goroutines of their own: each keeps running.
SpecSingle ==
    /\ InitSingle
    /\ [][NextSingle]_vars
    /\ WF_vars(timers("node1") /\ UNCHANGED <<treeVars, engineVars, handled, monitor>>)
    /\ WF_vars(runLoop("node1") /\ UNCHANGED <<treeVars, engineVars, handled, monitor>>)

\* --------------------------------------------- three replicas, elections only
NextElection ==
    \/ /\ \E n \in Nodes : timers(n)
       /\ UNCHANGED <<treeVars, engineVars, handled, monitor>>
    \/ /\ \E g \in rpcs : rpcCall(g)
       /\ UNCHANGED <<treeVars, engineVars, handled, monitor>>
    \/ /\ \E g \in rpcs : rpcServe(g)
       /\ UNCHANGED <<treeVars, engineVars, handled, monitor>>
    \/ /\ \E g \in rpcs : rpcReturn(g)
       /\ UNCHANGED <<treeVars, engineVars, handled, monitor>>

\* Reliable delivery: every timer and every RPC goroutine keeps running.
SpecElection ==
    /\ Init
    /\ [][NextElection]_vars
    /\ \A n \in {"node1", "node2", "node3"} : WF_vars(timers(n) /\ UNCHANGED <<treeVars, engineVars, handled, monitor>>)
    /\ WF_vars(UNCHANGED <<treeVars, engineVars, handled, monitor>> /\ \E g \in rpcs : rpcCall(g))
    /\ WF_vars(UNCHANGED <<treeVars, engineVars, handled, monitor>> /\ \E g \in rpcs : rpcServe(g))
    /\ WF_vars(UNCHANGED <<treeVars, engineVars, handled, monitor>> /\ \E g \in rpcs : rpcReturn(g))

\* ------------------------------------- five replicas, one follower may be killed
InitFive == InitCluster({"node1", "node2", "node3", "node4", "node5"})

\* The scenario: node1 draws the shortest election timeout and its first
\* election timeout is the only one that fires; one replica is killed, and it
\* is a follower; after that the clients send their puts to node1.
NextFive ==
    \/ /\ node["node1"].currentTerm = 0 /\ timers("node1")
       /\ UNCHANGED <<treeVars, engineVars, handled, monitor>>
    \/ /\ \E g \in rpcs : rpcCall(g)
       /\ UNCHANGED <<treeVars, engineVars, handled, monitor>>
    \/ /\ \E g \in rpcs : rpcServe(g)
       /\ UNCHANGED <<treeVars, engineVars, handled, monitor>>
    \/ /\ \E g \in rpcs : rpcReturn(g)
       /\ UNCHANGED <<treeVars, engineVars, handled, monitor>>
    \/ /\ \E n \in Nodes : up = Nodes /\ node[n].state = Follower /\ kill(n)
       /\ UNCHANGED <<treeVars, engineVars, handled, monitor>>
    \/ /\ \E k \in Keys, v \in Values :
             up # Nodes /\ SubmitRequest("node1", "put", k, v)
       /\ UNCHANGED <<treeVars, engineVars, handled, monitor>>
    \/ /\ runLoop("node1")
       /\ UNCHANGED <<treeVars, engineVars, handled, monitor>>
    \/ /\ \E c \in 1..Len(calls) : responseTimeout(c)
       /\ UNCHANGED <<treeVars, engineVars, handled, monitor>>

SpecFive == InitFive /\ [][NextFive]_vars

\* ------------------------------------------------------- the tree on its own
InitBTree == InitCluster({})

NextTree ==
    \/ \E k \in TreeKeys \cup {LongKey}, v \in TreeValues \cup {LongValue} : TreeInsert(k, v)
    \/ \E k \in TreeKeys : TreeDelete(k)
    \/ \E k \in TreeKeys : TreeGet(k)

SpecTree == InitBTree /\ [][NextTree]_vars

\* -------------------------------------------- the engine, closed and reopened
NextEngine ==
    \/ Open
    \/ \E k \in EngineKeys, v \in TreeValues : Put(k, v)
    \/ \E k \in EngineKeys : GetKey(k)
    \/ \E k \in EngineKeys : DeleteKey(k)
    \/ Close
    \/ Crash

SpecEngine == InitBTree /\ [][NextEngine]_vars

\* ------------------------------------------- the engine, called concurrently
NextConcurrent ==
    \/ Open
    \/ Go
    \/ \E g \in Goroutines : GoPut(g)
    \/ \E g \in Goroutines : GoGet(g)
    \/ \E g \in Goroutines : GoDelete(g)

SpecConcurrent == InitBTree /\ [][NextConcurrent]_vars

\* --------------------------------------- a replica that applies to the engine
NextApply ==
    \/ Open
    \/ \E cmd \in EngineCommands : Apply(cmd)

SpecApply == InitBTree /\ [][NextApply]_vars

\* ------------------------------------------------ one replica on the network
NextHandlers ==
    \/ \E req \in VoteRequests : callRequestVote(req)
    \/ \E req \in AppendRequests : callAppendEntries(req)
    \/ serveRequestVote
    \/ serveAppendEntries
    \/ reply
    \/ electionTimeout
    \/ \E g \in rpcs : callPeer(g)
    \/ \E g \in rpcs : callFails(g)
    \/ \E g \in rpcs, t \in 1..MaxTerm, vg \in BOOLEAN :
           voteReturns(g, [Term |-> t, VoteGranted |-> vg])

SpecHandlers == InitHandlers /\ [][NextHandlers]_vars

\* ------------------------------------------ one log applied on both paths
InitPair == InitCluster({"node1", "node2"})

NextPair ==
    \E op \in {"put", "delete"}, k \in AnyKeys, v \in AnyValues :
        applyOnBoth("node1", "node2", op, k, v)

SpecPair == InitPair /\ [][NextPair]_vars

\* ------------------------------- two replicas in one registry, and its monitor
NextMonitor ==
    \/ /\ \E n \in Nodes : timers(n)
       /\ UNCHANGED <<treeVars, engineVars, handled, monitor>>
    \/ /\ \E g \in rpcs : rpcCall(g)
       /\ UNCHANGED <<treeVars, engineVars, handled, monitor>>
    \/ /\ \E g \in rpcs : rpcServe(g)
       /\ UNCHANGED <<treeVars, engineVars, handled, monitor>>
    \/ /\ \E g \in rpcs : rpcReturn(g)
       /\ UNCHANGED <<treeVars, engineVars, handled, monitor>>
    \/ monitorTick
    \/ \E n \in Nodes : monitorIsLeader(n)
    \/ monitorResolve

\* The ticker keeps ticking and every goroutine keeps running.
SpecMonitor ==
    /\ InitPair
    /\ [][NextMonitor]_vars
    /\ WF_vars(UNCHANGED <<treeVars, engineVars, handled, monitor>> /\ \E g \in rpcs : rpcCall(g))
    /\ WF_vars(UNCHANGED <<treeVars, engineVars, handled, monitor>> /\ \E g \in rpcs : rpcServe(g))
    /\ WF_vars(UNCHANGED <<treeVars, engineVars, handled, monitor>> /\ \E g \in rpcs : rpcReturn(g))
    /\ WF_vars(monitorTick)
    /\ WF_vars(\E n \in Nodes : monitorIsLeader(n))
    /\ WF_vars(monitorResolve)

\* ------------------------------------------------- the tree, Inserts only
NextInserts ==
    \E k \in TreeKeys \cup {LongKey}, v \in TreeValues \cup {LongValue} : TreeInsert(k, v)

SpecInserts == InitBTree /\ [][NextInserts]_vars

\* ------------------------------- one replica: StepDown and RequestVote calls
NextStepDown ==
    \/ callStepDown
    \/ \E req \in VoteRequests : callRequestVote(req)
    \/ serveRequestVote
    \/ reply

SpecStepDown == InitStepDown /\ [][NextStepDown]_vars

\* ------------------------------------------------------------------- claims
\* C1: election safety.  At most one replica is in state Leader for any given
\* term: two distinct replicas that are both Leader are so in different terms.
\* (No step of the code takes a Leader out of state Leader without raising its
\* term, so the replicas that are Leader in a term now are all that ever were.)
C1_ElectionSafety ==
    \A a, b \in Nodes :
        (a # b /\ node[a].state = Leader /\ node[b].state = Leader)
            => node[a].currentTerm # node[b].currentTerm

\* A Leader never gets out of becomeLeader: the goroutine that made it Leader
\* holds mu.Lock and waits for mu.RLock in sendHeartbeats.
LeaderHoldsLock ==
    \A n \in Nodes : node[n].state = Leader => node[n].mu = "locked"

\* With the lock held for ever, no step changes anything of a Leader: it never
\* steps down, serves no RPC and integrates no response.
LeaderNeverMoves ==
    [][\A n \in Nodes : node[n].state = Leader => node'[n] = node[n]]_vars

\* No replica ever has a log entry, a commit or an applied command.
LogsStayEmpty ==
    \A n \in Nodes :
        /\ node[n].log = <<>>
        /\ node[n].commitIndex = 0
        /\ node[n].lastApplied = 0
        /\ DOMAIN node[n].storage = {}

\* No client request is ever answered with success.
NoSuccess ==
    \A c \in 1..Len(calls) : ~calls[c].resp.Success

isWrite(op) == op \in {"put", "delete"}

isWriteCommand(cmd) ==
    \/ \E k \in Keys, v \in Values : cmd = PutCommand(k, v)
    \/ \E k \in Keys : cmd = DelCommand(k)

NeverLeaderWithoutPeers ==
    \A n \in Nodes : node[n].peers = {} => node[n].state # Leader

\* C8: a cluster of a single replica with no peers makes progress.  The replica
\* eventually becomes Leader, and every put submitted to it is eventually
\* answered with success.
C8_SingleReplicaProgress ==
    /\ <>(node["node1"].state = Leader)
    /\ \A c \in 1..MaxCalls :
          (c <= Len(calls) /\ calls[c].Operation = "put")
              ~> (/\ c <= Len(calls)
                  /\ calls[c].status = "done"
                  /\ calls[c].resp.Success)

leaders == {n \in Nodes : node[n].state = Leader}

\* The election timer of some replica that is not Leader is stopped by the
\* bounds of the model and not by the code.
timerBounded ==
    \E n \in Nodes \ leaders :
        node[n].currentTerm >= MaxTerm \/ Cardinality(elections) >= MaxElections

\* C9: leader election liveness.  Three replicas started with empty state and
\* reliable delivery eventually reach a state in which exactly one replica is
\* Leader for some term >= 1 and the other two are Followers.  A run that comes
\* to rest with fewer than two Leaders and with an election timer stopped by
\* the bounds of the model is not held against the statement.
C9_ElectionLiveness ==
    \/ <>(\E l \in Nodes :
             /\ node[l].state = Leader
             /\ node[l].currentTerm >= 1
             /\ \A n \in Nodes \ {l} : node[n].state = Follower)
    \/ <>[](timerBounded /\ Cardinality(leaders) < 2)

\* C10: fault tolerance.  With one of five replicas down, a follower, a put
\* submitted to the replica that is Leader returns success: no such put returns
\* anything else.
C10_PutWithMinorityDown ==
    \A c \in 1..Len(calls) :
        (/\ calls[c].Operation = "put"
         /\ calls[c].toLeader
         /\ 2 * Cardinality(up) > Cardinality(Nodes)
         /\ calls[c].status = "done") => calls[c].resp.Success

\* The error of the facade's Put and Delete on a non-leader, which names the
\* leader's address: "not the leader, leader is at <address>".
NotLeaderAt(address) == <<"not the leader, leader is at", address>>

\* C13: reads require leadership and are redirected.  A Get through the storage
\* facade that was handled on a replica that is not Leader returns no value,
\* and its error is the not-leader error that carries a leader's address.
C13_GetRedirected ==
    \A c \in 1..Len(calls) :
        (/\ calls[c].Operation = "get"
         /\ calls[c].status = "done"
         /\ node[calls[c].node].state # Leader) =>
            /\ ~calls[c].resp.Success
            /\ calls[c].resp.Value = <<>>
            /\ calls[c].resp.Error \in {NotLeaderAt(l) : l \in Nodes}


\* ------------------------------------------------------------ B+Tree claims
\* What Get answers for a key, as the sorted map answers it.
mapGet(m, key) ==
    IF key \in DOMAIN m THEN outcome(tree, "", m[key], FALSE)
    ELSE outcome(tree, KeyNotFound, NoBytes, FALSE)

\* C14: after any sequence of Insert and Delete calls with keys of at most
\* 1000 bytes and values of at most 3000 bytes, the tree holds what a sorted
\* map driven by the same calls holds: Get of every key answers the map's
\* value, or "key not found" when the map has no such key, and no call panics.
C14_TreeEqualsSortedMap ==
    /\ ~last.panic
    /\ \A k \in TreeKeys : Get(tree, k) = mapGet(sortedMap, k)

\* Deserialize(Serialize(n)) succeeds and gives n back.
roundTrips(n) ==
    LET d == Deserialize(Serialize(n))
    IN d.err = "" /\ ~d.panic /\ d.node = asBytes(n)

\* C15: every node the tree operations build, leaf or internal, with any
\* number of entries, survives the serialization round trip:
\* Deserialize(Serialize(n)) succeeds and equals n in type, nkeys, pointers,
\* offsets and data.
C15_SerializeRoundTrip ==
    \A a \in 1..Len(tree.heap) : roundTrips(tree.heap[a])

\* The last call was an Insert or a Delete that returned no error.
lastSucceeded(op) == last.op = op /\ last.err = "" /\ ~last.panic

\* C16: after every successful Insert or Delete no node of the tree has a
\* Size above the page size of 4096 bytes: a split leaves both halves within
\* one page.
C16_PageBound ==
    (lastSucceeded("Insert") \/ lastSucceeded("Delete")) =>
        \A a \in treeNodes(tree) : NodeSize(tree.heap[a]) <= BTREE_PAGE_SIZE

\* The depths at which the tree has its leaves. A pointer that leads to no
\* registered node gives an empty leaf (getChild), one level below its node.
leafDepths(t) ==
    {p[2] : p \in {q \in nodesFrom(t, t.root, 0) : deref(t, q[1]).typ = BNODE_LEAF}}
    \cup {p[2] + 1 : p \in {q \in nodesFrom(t, t.root, 0) : fresh \in children(t, q[1])}}

C18_NoEmptyNonRootNode ==
    lastSucceeded("Delete") =>
        \A a \in treeNodes(tree) \ {tree.root} : ~IsEmpty(tree.heap[a])

\* The tree holds the key: Get finds it.
holds(t, key) == ~Get(t, key).panic /\ Get(t, key).err = ""

\* C19: whatever Insert the program calls next, an Insert that is rejected,
\* because the tree already holds the key or the key is longer than 1000
\* bytes or the value longer than 3000 bytes,
\* returns an error and leaves the tree as it was: the same nodes with the
\* same contents (a duplicate key keeps its value), the same root, the same
\* Size().
C19_RejectedInsertAtomic ==
    canCall =>
        \A k \in TreeKeys \cup {LongKey}, v \in TreeValues \cup {LongValue} :
            LET r == Insert(tree, k, v)
            IN /\ (k.n > BTREE_MAX_KEY_SIZE \/ v.n > BTREE_MAX_VAL_SIZE \/ holds(tree, k)) =>
                      r.err \in {KeyTooLarge, ValueTooLarge, KeyExists}
               /\ r.err # "" =>
                      /\ ~r.panic
                      /\ Size(r.t) = Size(tree)
                      /\ r.t.heap = tree.heap
                      /\ r.t = tree

\* An Insert of a key the tree holds, in a tree that has split, was rejected.
C19_Witness ==
    /\ last.op = "Insert"
    /\ last.err = KeyExists
    /\ Height(tree) >= 1
    /\ Size(tree) >= 2

\* C20: after any sequence of Insert and Delete calls, successful or failed,
\* Size() is the number of distinct keys for which Get succeeds.
C20_SizeTracking ==
    ~last.panic => Size(tree) = Cardinality({k \in TreeKeys : holds(tree, k)})

\* ------------------------------------------------------ StorageEngine claims
\* C21: after Put(k, v) has returned success, closing or crashing the engine
\* and opening the same file again gives an engine that holds what the old
\* one held: Get of every key answers as it did before the close or crash.
C21_PersistsAcrossRestart ==
    (last.op = "NewStorageEngine" /\ last.err = "") =>
        \A k \in EngineKeys :
            /\ Get(tree, k).err = Get(engine.before, k).err
            /\ Get(tree, k).value = Get(engine.before, k).value

\* C22: when several goroutines run Put(k_i, v_i); Get(k_i); Delete(k_i) side
\* by side on keys that differ, then under every interleaving each Put
\* succeeds, each Get returns the goroutine's own v_i and each Delete succeeds.
C22_ConcurrentCallsAtomic ==
    /\ pc # <<>> => ~last.panic
    /\ \A g \in DOMAIN pc :
          /\ pc[g].at # "Put" => pc[g].put = ""
          /\ pc[g].at \in {"Delete", "done"} => pc[g].get = "" /\ pc[g].got = pc[g].value
          /\ pc[g].at = "done" => pc[g].del = ""

\* C23: after a committed "PUT k v" entry is applied to the index kept by the
\* B+Tree, k is mapped to v, whether or not k was there before: a second
\* apply of the entry, or a PUT for a key the index holds, leaves the latest
\* value stored.
C23_ApplyPutOverwrites ==
    (handled.kind = "apply" /\ handled.n = last.n /\ bufTake(handled.Command, 4) = PUT_) =>
        LET keyValue == bufFrom(handled.Command, 4)
            sp == bufSpaceIndex(keyValue)
            got == Get(tree, slice(bufTake(keyValue, sp)))
        IN /\ ~last.panic
           /\ got.err = ""
           /\ got.value = slice(bufFrom(keyValue, sp + 1))

\* ------------------------------------------------------- RPC handler claims
\* C24: RequestVote grants the vote exactly when (1) the request's term is at
\* least the receiver's currentTerm, (2) the receiver's votedFor, which a
\* higher term in the request has emptied, is empty or the candidate, and
\* (3) the candidate's lastLogTerm is above the receiver's last log term, or
\* equal to it with lastLogIndex at least the receiver's log length; when it
\* grants, votedFor is the candidate afterwards.
C24_VoteGrantedIff ==
    handled.kind = "RequestVote" =>
        LET b == handled.before
            req == handled.msg
            votedFor == IF req.Term > b.currentTerm THEN NoVote ELSE b.votedFor
            lastTerm == IF b.log = <<>> THEN 0 ELSE b.log[Len(b.log)].Term
            grant == /\ req.Term >= b.currentTerm
                     /\ votedFor = NoVote \/ votedFor = req.CandidateID
                     /\ \/ req.LastLogTerm > lastTerm
                        \/ req.LastLogTerm = lastTerm /\ req.LastLogIndex >= Len(b.log)
        IN /\ handled.resp.VoteGranted = grant
           /\ grant => handled.after.votedFor = req.CandidateID

\* A vote granted by a receiver that holds entries, to a candidate whose last
\* term is the receiver's.
C24_Witness ==
    /\ handled.kind = "RequestVote"
    /\ handled.resp.VoteGranted
    /\ handled.before.log # <<>>
    /\ handled.msg.LastLogTerm = handled.before.log[Len(handled.before.log)].Term
    /\ handled.after.votedFor = handled.msg.CandidateID

\* C25: an AppendEntries request whose term is below the receiver's
\* currentTerm is answered Success = false with Term = currentTerm, and the
\* receiver's currentTerm, votedFor, state, log, commitIndex, lastApplied and
\* lastHeartbeat are as they were.
C25_StaleAppendEntriesRejected ==
    (handled.kind = "AppendEntries" /\ handled.msg.Term < handled.before.currentTerm) =>
        /\ ~handled.panic
        /\ handled.resp = [Term |-> handled.before.currentTerm, Success |-> FALSE]
        /\ handled.after = handled.before
        /\ ~handled.beats

\* A stale request that carries an entry and a higher leaderCommit reaches a
\* receiver whose log matches it at PrevLogIndex.
C25_Witness ==
    /\ handled.kind = "AppendEntries"
    /\ handled.msg.Term < handled.before.currentTerm
    /\ handled.msg.Entries # <<>>
    /\ handled.msg.LeaderCommit > handled.before.commitIndex
    /\ logContainsEntry(handled.before, handled.msg.PrevLogIndex, handled.msg.PrevLogTerm)
    /\ handled.before.log # <<>>
    /\ ~handled.resp.Success

\* C26: a Candidate that has handled an AppendEntries whose term is its own
\* currentTerm or above is a Follower afterwards.
C26_CandidateRevertsToFollower ==
    (/\ handled.kind = "AppendEntries"
     /\ handled.before.state = Candidate
     /\ handled.msg.Term >= handled.before.currentTerm) =>
        handled.after.state = Follower

\* C27: after a follower has accepted AppendEntries(prevLogIndex, prevLogTerm,
\* entries), its log holds the request's entries at the indices
\* prevLogIndex+1 .. prevLogIndex+len(entries); if an entry it held at one of
\* these indices had another term, nothing is left after the request's last
\* entry; if it held all of them already, the log is as it was.
C27_LogHoldsRequestEntries ==
    (/\ handled.kind = "AppendEntries"
     /\ ~handled.panic
     /\ handled.resp.Success
     /\ handled.msg.Entries # <<>>
     /\ handled.after.state = Follower) =>
        LET req == handled.msg
            old == handled.before.log
            new == handled.after.log
            at == {i \in 1..Len(req.Entries) : req.PrevLogIndex + i <= Len(old)}
            conflict == \E i \in at : old[req.PrevLogIndex + i].Term # req.Entries[i].Term
        IN /\ Len(new) >= req.PrevLogIndex + Len(req.Entries)
           /\ \A i \in 1..Len(req.Entries) :
                 /\ new[req.PrevLogIndex + i].Term = req.Entries[i].Term
                 /\ new[req.PrevLogIndex + i].Command = req.Entries[i].Command
                 /\ new[req.PrevLogIndex + i].Index = req.PrevLogIndex + i
           /\ conflict => Len(new) = req.PrevLogIndex + Len(req.Entries)
           /\ (~conflict /\ at = 1..Len(req.Entries)) => new = old

\* C28: after a follower has accepted an AppendEntries, a heartbeat or not,
\* that matches its log at prevLogIndex and whose leaderCommit is above its
\* commitIndex, its commitIndex is the smaller
\* of leaderCommit and the index of the last new entry, and every entry up to
\* that commitIndex has been applied.
C28_CommitIndexFollowsLeader ==
    (/\ handled.kind = "AppendEntries"
     /\ ~handled.panic
     /\ handled.resp.Success
     /\ handled.after.state = Follower
     /\ logContainsEntry(handled.before, handled.msg.PrevLogIndex, handled.msg.PrevLogTerm)
     /\ handled.msg.LeaderCommit > handled.before.commitIndex) =>
        /\ handled.after.commitIndex =
               Min(handled.msg.LeaderCommit,
                   handled.msg.PrevLogIndex + Len(handled.msg.Entries))
        /\ handled.after.lastApplied = handled.after.commitIndex

\* C29: whenever a replica has handled a RequestVote or AppendEntries request,
\* or one of its goroutines a response, that carries a term above its
\* currentTerm, its currentTerm is that term and its state is Follower, in the
\* same step and whatever its state was.
C29_StepDownOnHigherTerm ==
    LET term == IF handled.kind = "voteReturn" THEN handled.resp.Term ELSE handled.msg.Term
    IN (/\ handled.kind \in {"RequestVote", "AppendEntries", "voteReturn"}
        /\ ~handled.panic
        /\ term > handled.before.currentTerm) =>
           /\ handled.after.currentTerm = term
           /\ handled.after.state = Follower

\* A Candidate whose vote goroutine gets a response of a higher term.
C29_Witness ==
    /\ handled.kind = "voteReturn"
    /\ handled.before.state = Candidate
    /\ handled.resp.Term > handled.before.currentTerm
    /\ handled.after.state = Follower
    /\ handled.after.currentTerm = handled.resp.Term

\* The storage after the commands of log[from .. to] have been applied to st,
\* one index after the other.
RECURSIVE appliedInOrder(_, _, _, _)
appliedInOrder(st, log, from, to) ==
    IF from > to THEN st
    ELSE appliedInOrder(applyCommitted1(st, log[from].Command), log, from + 1, to)

C32_DeterministicApply ==
    \A m \in Nodes, n \in Nodes :
        (/\ node[m].log = node[n].log
         /\ node[m].lastApplied = node[n].lastApplied) =>
            node[m].storage = node[n].storage

\* C33: a replica becomes Leader in term T only as a Candidate of term T for
\* which strictly more than half of the configured replicas, itself included,
\* have granted their vote in term T: a grant for an earlier election, or one
\* that comes in after the replica has left state Candidate, makes no Leader.
C33_LeaderOnlyByMajorityOfTerm ==
    [][\A n \in Nodes :
         (node[n].state # Leader /\ node'[n].state = Leader) =>
            LET T == node[n].currentTerm
                \* the grants for term T that this step integrates; with three
                \* replicas one of them and the candidate's own vote are a majority
                granted == {g \in rpcs \ rpcs' :
                               /\ g.kind = "vote" /\ g.from = n /\ g.phase = "replied"
                               /\ g.resp.VoteGranted /\ g.req.Term = T}
            IN /\ node[n].state = Candidate
               /\ node'[n].currentTerm = T
               /\ node[n].votedFor = n
               /\ 2 * (1 + Cardinality({g.to : g \in granted})) > Cardinality(node[n].peers) + 1
      ]_vars
\* C34: every run of the registry's monitor that finds two or more replicas in
\* state Leader leaves exactly one of them Leader, so two registered Leaders
\* lead to a state with one Leader.
Leaders == {n \in Nodes : node[n].state = Leader}

C34_MonitorResolvesLeaders ==
    (Cardinality(Leaders) >= 2) ~> (Cardinality(Leaders) = 1)
\* C35: after any sequence of Inserts every internal node of the tree has
\* exactly nkeys + 1 child pointers, each leads to a live child, and no two
\* of them lead to the same child.
C35_InternalNodeShape ==
    ~last.panic =>
        \A a \in treeNodes(tree) :
            LET n == tree.heap[a]
            IN n.typ = BNODE_NODE =>
                  /\ Len(n.pointers) = n.nkeys + 1
                  /\ \A i \in 0..n.nkeys : getChild(tree, n, i) \notin {nil, fresh}
                  /\ \A i \in 0..n.nkeys, j \in 0..n.nkeys :
                        i # j => getChild(tree, n, i) # getChild(tree, n, j)
\* C36: no goroutine waits for ever for a replica's Raft lock: whenever the
\* lock of a replica is held it is released again, also by the goroutine that
\* makes the replica Leader.
C36_LockIsReleased ==
    \A n \in {"node1", "node2", "node3"} :
        (node[n].mu = "locked") ~> (node[n].mu = "unlocked")
\* C37: the currentTerm of a replica never decreases; startElection raises
\* it by exactly one, and every other change sets it to a strictly greater
\* term, the one of the request the replica served or of the response it
\* integrated.
C37_TermMonotonic ==
    [][LET a == node[Receiver].currentTerm
           b == node'[Receiver].currentTerm
       IN /\ b >= a
          /\ b # a =>
                \/ /\ handled' = handled
                   /\ node'[Receiver].state = Candidate
                   /\ b = a + 1
                \/ /\ handled'.kind \in {"RequestVote", "AppendEntries"}
                   /\ b = handled'.msg.Term
                   /\ b > a
                \/ /\ handled'.kind = "voteReturn"
                   /\ b = handled'.resp.Term
                   /\ b > a
      ]_vars

\* A candidate of term 1 has integrated a response of term 2 and taken its term.
C37_Witness ==
    /\ handled.kind = "voteReturn"
    /\ handled.before.state = Candidate
    /\ handled.before.currentTerm = 1
    /\ handled.resp.Term = 2
    /\ handled.after.currentTerm = 2
    /\ node[Receiver].currentTerm = 2
\* C38: in every reachable state of every replica
\* lastApplied <= commitIndex <= len(log).
C38_IndexBounds ==
    \A n \in Nodes :
        /\ node[n].lastApplied <= node[n].commitIndex
        /\ node[n].commitIndex <= Len(node[n].log)

\* C39: once the commitIndex of a replica has reached N, no step removes or
\* replaces one of its log entries at the indices up to N.
C39_CommittedEntriesStable ==
    [][\A n \in Nodes :
         \A i \in 1..node[n].commitIndex :
            i <= Len(node[n].log) =>
               /\ i <= Len(node'[n].log)
               /\ node'[n].log[i] = node[n].log[i]
      ]_vars
====
